---- MODULE Spec2Model ----
(***************************************************************************)
(* Checkpoint/resume controller and retry policy of the toolify scraper    *)
(* (src/main.py): scrape_tools, save_checkpoint, load_checkpoint and       *)
(* retry_with_timeout; and the extraction functions it calls.              *)
(*                                                                         *)
(* A state holds the process' memory (tools, processed_urls, the loop      *)
(* position) and the two files the process leaves behind                   *)
(* (CHECKPOINT_FILE, OUTPUT_FILE).  The process can be killed at any step  *)
(* (Crash) and started again (Restart); the files survive, the memory does *)
(* not.                                                                    *)
(*                                                                         *)
(*   Spec         a short category page; file writes may raise OSError     *)
(*   SpecCore     the same with file writes that never raise               *)
(*   SpecCadence  a page long enough for the periodic checkpoint           *)
(*   SpecRetry    one call of retry_with_timeout                           *)
(*   SpecRun      a process that is never killed, on a clean directory or  *)
(*                on a saved checkpoint (fair)                             *)
(*                                                                         *)
(* The functions the controller relies on are modelled one call at a time, *)
(* with Python strings as strings and substring search as the code does    *)
(* it:                                                                     *)
(*                                                                         *)
(*   SpecCategorize  categorize_tool (src/utils/category_utils.py)         *)
(*   SpecExtract     extract_tool_details (src/main.py)                    *)
(*   SpecFallback    extract_with_fallback (src/utils/scraper_utils.py)    *)
(*   SpecParts       extract_description_parts (src/utils/data_utils.py)   *)
(*   SpecLogo        the two logo phases of extract_tool_details           *)
(*   SpecCleanUrl    clean_url (src/utils/data_utils.py)                   *)
(*   SpecCsv         json_to_csv, one item (src/utils/data_utils.py)       *)
(*   SpecPages       load_all_tools (src/main.py), fair                    *)
(*   SpecLlm         get_llm_category (src/utils/data_utils.py)            *)
(***************************************************************************)
EXTENDS Naturals, Sequences, FiniteSets

\* ---------------------------------------------------------------- bounds
\* Number of tool URLs the category page lists (Spec).
MaxUrls == 3
\* Number of tool URLs the category page lists in the long crawl (SpecCadence).
CadenceUrls == 12
\* Number of URLs whose extraction fails in the long crawl (SpecCadence).
MaxFailed == 2
\* Number of times the program is started.
MaxRuns == 2
\* Largest max_retries argument tried on retry_with_timeout.
MaxRetriesArg == 5

\* ------------------------------------------------------ program constants
MAX_RETRIES == 3
CHECKPOINT_EVERY == 10

VARIABLES
  pc,               \* position of the process in scrape_tools
  tools,            \* list of records scraped so far (each keyed by its source URL)
  processed_urls,   \* set of URLs marked done
  remaining_urls,   \* list of URLs the loop iterates over
  i,                \* enumerate(remaining_urls, 1) index of the current iteration
  attempt,          \* attempt index of the retry_with_timeout call in the loop
  save_ret,         \* where the running save_checkpoint call returns to
  checkpoint_file,  \* CHECKPOINT_FILE on disk
  output_file,      \* OUTPUT_FILE on disk
  site,             \* per URL of the category page, what its extraction has yielded
  runs,             \* number of times the program has been started
  loaded_urls,      \* processed_urls as returned by load_checkpoint in this run
  loaded_n,         \* len(tools) as returned by load_checkpoint in this run
  since_ckpt,       \* URLs marked done since the last completed checkpoint write
  iter_appended,    \* the current iteration appended a record
  iter_raised,      \* the current iteration ended in the per-URL except handler
  loop_done,        \* the per-URL loop of this run ran to completion
  ended,            \* how the run ended
  prev_crashed,     \* the run before this one was killed
  r_pc,             \* position in a retry_with_timeout call under test
  max_retries,      \* its max_retries argument
  r_attempt,        \* its loop variable attempt
  r_calls,          \* what each call of func() did, in order
  r_sleeps,         \* the delays passed to asyncio.sleep, in order
  r_result,         \* what retry_with_timeout returned or raised
  c_pc,             \* position in a categorize_tool call under test
  arg_name,         \* the name it was called with
  arg_description,  \* the description it was called with
  name,             \* its parameter name (rebound to the cleaned text)
  description,      \* its parameter description (rebound likewise)
  combined_text,    \* its local combined_text
  matches,          \* its local matches: category and total_score (in halves)
  c_cat,            \* index in CATEGORIES of the category its loop is at
  c_result,         \* what categorize_tool returned or raised
  e_pc,             \* position in an extract_tool_details call under test
  page,             \* the tool page it reads
  tool_data,        \* its local tool_data
  details,          \* what it returned to scrape_tools
  e_tools,          \* the tools list of the scrape_tools loop that called it
  e_processed,      \* the processed_urls set of that loop
  logo_candidates,  \* its local logo_candidates, per logo search
  logo_phases,      \* the logo searches it has run, in order
  f_pc,             \* position in an extract_with_fallback call under test
  html_element,     \* what its html_element answers to the two queries
  xpath_selector,   \* its xpath_selector argument
  f_result,         \* what extract_with_fallback returned or raised
  p_pc,             \* position in an extract_description_parts call under test
  p_description,    \* its description argument
  parts,            \* its local parts
  p_result,         \* what extract_description_parts returned or raised
  u_pc,             \* position in a clean_url call under test
  u_arg,            \* the url the first call was given
  u_url,            \* its parameter url (rebound as it is normalised)
  u_call,           \* 1 in clean_url(u), 2 in clean_url(clean_url(u))
  u_results,        \* what the calls returned, in order
  v_pc,             \* position in a json_to_csv call under test
  item,             \* the record of the JSON file its loop is at
  social_links,     \* its local social_links
  important_links,  \* its local important_links
  logo_url,         \* its local logo_url
  img_url,          \* its local img_url
  field,            \* index in logo_fields of its inner loop
  flat_item,        \* its local flat_item, the row
  t_pc,             \* position in a load_all_tools call under test
  page_num,         \* its local page_num
  t_urls,           \* its local tool_urls
  t_listed,         \* number of tools the category listing holds
  t_result,         \* what load_all_tools returned
  g_pc,             \* position in a get_llm_category call under test
  g_name,           \* its name argument
  g_description,    \* its description argument
  keyword_category, \* its local keyword_category
  g_path,           \* the return statement categorize_tool left through
  g_llm_called,     \* llm_strategy.extract was called
  g_result          \* what get_llm_category returned or raised

scrapeVars == <<pc, tools, processed_urls, remaining_urls, i, attempt, save_ret,
                checkpoint_file, output_file, site, runs, loaded_urls, loaded_n,
                since_ckpt, iter_appended, iter_raised, loop_done, ended,
                prev_crashed>>
retryVars == <<r_pc, max_retries, r_attempt, r_calls, r_sleeps, r_result>>
classVars == <<c_pc, arg_name, arg_description, name, description, combined_text,
               matches, c_cat, c_result>>
extractVars == <<e_pc, page, tool_data, details, e_tools, e_processed,
                 logo_candidates, logo_phases>>
fallbackVars == <<f_pc, html_element, xpath_selector, f_result>>
partsVars == <<p_pc, p_description, parts, p_result>>
urlVars == <<u_pc, u_arg, u_url, u_call, u_results>>
csvVars == <<v_pc, item, social_links, important_links, logo_url, img_url,
             field, flat_item>>
pagesVars == <<t_pc, page_num, t_urls, t_listed, t_result>>
llmVars == <<g_pc, g_name, g_description, keyword_category, g_path,
             g_llm_called, g_result>>
vars == <<scrapeVars, retryVars, classVars, extractVars, fallbackVars, partsVars,
          urlVars, csvVars, pagesVars, llmVars>>
notScrapeVars == <<retryVars, classVars, extractVars, fallbackVars, partsVars,
                   urlVars, csvVars, pagesVars, llmVars>>
notRetryVars == <<scrapeVars, classVars, extractVars, fallbackVars, partsVars,
                  urlVars, csvVars, pagesVars, llmVars>>
notClassVars == <<scrapeVars, retryVars, extractVars, fallbackVars, partsVars,
                  urlVars, csvVars, pagesVars, llmVars>>
notExtractVars == <<scrapeVars, retryVars, classVars, fallbackVars, partsVars,
                    urlVars, csvVars, pagesVars, llmVars>>
notFallbackVars == <<scrapeVars, retryVars, classVars, extractVars, partsVars,
                     urlVars, csvVars, pagesVars, llmVars>>
notPartsVars == <<scrapeVars, retryVars, classVars, extractVars, fallbackVars,
                  urlVars, csvVars, pagesVars, llmVars>>
coreVars == <<scrapeVars, retryVars, classVars, extractVars, fallbackVars,
              partsVars>>
notUrlVars == <<coreVars, csvVars, pagesVars, llmVars>>
notCsvVars == <<coreVars, urlVars, pagesVars, llmVars>>
notPagesVars == <<coreVars, urlVars, csvVars, llmVars>>
notLlmVars == <<coreVars, urlVars, csvVars, pagesVars>>

\* ------------------------------------------------------------ file values
Absent == [kind |-> "absent", tools |-> <<>>, processed_urls |-> <<>>]
\* A file opened with mode 'w' whose json.dump has not finished: empty or cut short.
Truncated == [kind |-> "truncated", tools |-> <<>>, processed_urls |-> <<>>]

\* A record of the results list; url is the page it was extracted from.
Record(u) == [url |-> u]

RECURSIVE SetToList(_)
\* list(processed_urls): the members of a set as a list (ascending here).
SetToList(S) ==
  IF S = {} THEN <<>>
  ELSE LET m == CHOOSE x \in S : \A y \in S : x <= y
       IN <<m>> \o SetToList(S \ {m})

\* set(checkpoint['processed_urls'])
ListToSet(s) == {s[k] : k \in 1..Len(s)}

\* The dict save_checkpoint dumps.
CheckpointOf(ts, ps) ==
  [kind |-> "complete", tools |-> ts, processed_urls |-> SetToList(ps)]

\* Mutant: only the newest record is dumped (an append-style save).
OutputOfNewest(ts) ==
  [kind |-> "complete", tools |-> SubSeq(ts, Len(ts), Len(ts)),
   processed_urls |-> <<>>]

\* json.dump(tools, f) on the output file.
OutputOf(ts) == [kind |-> "complete", tools |-> ts, processed_urls |-> <<>>]

UrlsOf(ts) == {ts[k].url : k \in 1..Len(ts)}

\* ------------------------------------------------------------ python values
\* A python value: a str with its text, or None, or a number.
PyStr(s) == [type |-> "str", s |-> s]
PyNone == [type |-> "NoneType", s |-> ""]
PyInt == [type |-> "int", s |-> ""]

\* What a call returned or raised.
Returned(v) == [kind |-> "returned", value |-> v]
Raised(e) == [kind |-> "raised", value |-> e]

ASCII_LOWER == "abcdefghijklmnopqrstuvwxyz"
ASCII_UPPER == "ABCDEFGHIJKLMNOPQRSTUVWXYZ"
DIGITS == "0123456789"

\* c in s, for a single character c.
HasChar(s, c) == \E k \in 1..Len(s) : SubSeq(s, k, k) = c

\* sub in s: python's substring test.
In(sub, s) ==
  /\ Len(sub) <= Len(s)
  /\ \E k \in 0..(Len(s) - Len(sub)) : SubSeq(s, k + 1, k + Len(sub)) = sub

\* s.startswith(prefix)
StartsWith(s, prefix) ==
  Len(prefix) <= Len(s) /\ SubSeq(s, 1, Len(prefix)) = prefix

\* \s of the re module (the whitespace that occurs in the inputs).
IsSpace(c) == c \in {" ", "\n", "\t"}

\* c.lower()
LowerChar(c) ==
  IF HasChar(ASCII_UPPER, c)
    THEN LET k == CHOOSE j \in 1..Len(ASCII_UPPER) : SubSeq(ASCII_UPPER, j, j) = c
         IN SubSeq(ASCII_LOWER, k, k)
  ELSE c

RECURSIVE lower(_)
\* text.lower()
lower(s) ==
  IF s = "" THEN ""
  ELSE IF Len(s) = 1 THEN LowerChar(s)
  ELSE lower(SubSeq(s, 1, Len(s) \div 2))
         \o lower(SubSeq(s, Len(s) \div 2 + 1, Len(s)))

RECURSIVE lstrip(_)
\* text.lstrip()
lstrip(s) == IF s # "" /\ IsSpace(Head(s)) THEN lstrip(Tail(s)) ELSE s

RECURSIVE rstrip(_)
\* text.rstrip()
rstrip(s) ==
  IF s # "" /\ IsSpace(SubSeq(s, Len(s), Len(s)))
    THEN rstrip(SubSeq(s, 1, Len(s) - 1))
  ELSE s

\* text.strip()
strip(s) == rstrip(lstrip(s))

RECURSIVE CollapseSpaces(_)
\* re.sub(r'\s+', ' ', text): every run of whitespace becomes one space.
CollapseSpaces(s) ==
  IF s = "" THEN ""
  ELSE IF Len(s) = 1 THEN (IF IsSpace(s) THEN " " ELSE s)
  ELSE LET left == CollapseSpaces(SubSeq(s, 1, Len(s) \div 2))
           right == CollapseSpaces(SubSeq(s, Len(s) \div 2 + 1, Len(s)))
       IN IF SubSeq(left, Len(left), Len(left)) = " " /\ Head(right) = " "
            THEN left \o Tail(right)
          ELSE left \o right

\* ' '.join(text.split())
JoinSplit(s) == strip(CollapseSpaces(s))

\* ------------------------------------------- category_utils.clean_text
RECURSIVE BlankSpecial(_)
\* re.sub(r'[^a-z0-9\s]', ' ', text)
BlankSpecial(s) ==
  IF s = "" THEN ""
  ELSE (IF \/ HasChar(ASCII_LOWER, Head(s))
           \/ HasChar(DIGITS, Head(s))
           \/ IsSpace(Head(s))
          THEN Head(s) ELSE " ") \o BlankSpecial(Tail(s))

\* clean_text(text) of category_utils, for a str.
clean_text(text) == JoinSplit(BlankSpecial(CollapseSpaces(lower(text))))

\* ------------------------------------------------------------------ retry
\* delay = 2 ** (attempt + 1)
RetryDelay(a) == 2 ^ (a + 1)

\* Mutant: the off-by-one test `attempt < max_retries`.
MoreAttemptsOffByOne(a, m) == a < m

\* if attempt < max_retries - 1  (python integers: max_retries - 1 may be -1)
MoreAttempts(a, m) == a + 1 < m

\* --------------------------------------------------------- load_checkpoint
\* Mutant: an unparseable checkpoint is swallowed and read as the empty state.
LoadCheckpointLenient(f) ==
  IF f.kind = "complete"
    THEN [raised |-> FALSE, tools |-> f.tools,
          processed_urls |-> ListToSet(f.processed_urls)]
  ELSE [raised |-> FALSE, tools |-> <<>>, processed_urls |-> {}]

\* load_checkpoint(): what it returns, or that json.load / the key lookup raised.
LoadCheckpoint(f) ==
  IF f.kind = "absent"
    THEN [raised |-> FALSE, tools |-> <<>>, processed_urls |-> {}]
  ELSE IF f.kind = "complete"
    THEN [raised |-> FALSE, tools |-> f.tools,
          processed_urls |-> ListToSet(f.processed_urls)]
  ELSE [raised |-> TRUE, tools |-> <<>>, processed_urls |-> {}]

\* tools, processed_urls = load_checkpoint(): the first statement of scrape_tools,
\* outside every try block.
Load ==
  /\ pc = "load"
  /\ LET r == LoadCheckpoint(checkpoint_file) IN
       /\ tools' = r.tools
       /\ processed_urls' = r.processed_urls
       /\ loaded_urls' = r.processed_urls
       /\ loaded_n' = Len(r.tools)
       /\ pc' = IF r.raised THEN "fatal" ELSE "launch"
       /\ ended' = IF r.raised THEN "load_error" ELSE ended
  /\ UNCHANGED <<remaining_urls, i, attempt, save_ret, checkpoint_file, output_file,
                 site, runs, since_ckpt, iter_appended, iter_raised, loop_done,
                 prev_crashed>>

\* ------------------------------------------------------------ scrape_tools
\* async_playwright / chromium.launch / new_context / new_page.
Launch ==
  /\ pc = "launch"
  /\ pc' = "goto"
  /\ UNCHANGED <<tools, processed_urls, remaining_urls, i, attempt, save_ret,
                 checkpoint_file, output_file, site, runs, loaded_urls, loaded_n,
                 since_ckpt, iter_appended, iter_raised, loop_done, ended,
                 prev_crashed>>

\* The launch raises: nothing encloses it, the exception leaves scrape_tools.
LaunchRaises ==
  /\ pc = "launch"
  /\ pc' = "raised"
  /\ ended' = "launch_error"
  /\ UNCHANGED <<tools, processed_urls, remaining_urls, i, attempt, save_ret,
                 checkpoint_file, output_file, site, runs, loaded_urls, loaded_n,
                 since_ckpt, iter_appended, iter_raised, loop_done, prev_crashed>>

\* retry_with_timeout(page.goto(CATEGORY_URL)) returns.
GotoCategory ==
  /\ pc = "goto"
  /\ pc' = "discover"
  /\ UNCHANGED <<tools, processed_urls, remaining_urls, i, attempt, save_ret,
                 checkpoint_file, output_file, site, runs, loaded_urls, loaded_n,
                 since_ckpt, iter_appended, iter_raised, loop_done, ended,
                 prev_crashed>>

\* retry_with_timeout(page.goto(CATEGORY_URL)) raises after its last attempt.
GotoCategoryRaises ==
  /\ pc = "goto"
  /\ pc' = "except"
  /\ UNCHANGED <<tools, processed_urls, remaining_urls, i, attempt, save_ret,
                 checkpoint_file, output_file, site, runs, loaded_urls, loaded_n,
                 since_ckpt, iter_appended, iter_raised, loop_done, ended,
                 prev_crashed>>

\* Mutant: the filter on processed_urls is missing.
RemainingUrlsUnfiltered(tool_urls, done) == tool_urls

\* remaining_urls = [url for url in tool_urls if url not in processed_urls]
RemainingUrls(tool_urls, done) == SelectSeq(tool_urls, LAMBDA u : u \notin done)

\* What load_all_tools can return: it collects the cards page after page and
\* returns what it has when a "Load More" click fails, so the URLs of the first
\* k pages (here one URL per page), for any k.
Listings(all) == {{u \in all : u <= k} : k \in 0..Cardinality(all)}

\* tool_urls = await load_all_tools(page), then the filter.
Discover ==
  /\ pc = "discover"
  /\ \E tool_urls \in Listings(DOMAIN site) :
       remaining_urls' = RemainingUrls(SetToList(tool_urls), processed_urls)
  /\ i' = 0
  /\ pc' = "loop"
  /\ UNCHANGED <<tools, processed_urls, attempt, save_ret, checkpoint_file,
                 output_file, site, runs, loaded_urls, loaded_n, since_ckpt,
                 iter_appended, iter_raised, loop_done, ended, prev_crashed>>

\* for i, tool_url in enumerate(remaining_urls, 1): the next iteration starts.
LoopNext ==
  /\ pc = "loop"
  /\ i < Len(remaining_urls)
  /\ i' = i + 1
  /\ attempt' = 0
  /\ iter_appended' = FALSE
  /\ iter_raised' = FALSE
  /\ pc' = "extract"
  /\ UNCHANGED <<tools, processed_urls, remaining_urls, save_ret, checkpoint_file,
                 output_file, site, runs, loaded_urls, loaded_n, since_ckpt,
                 loop_done, ended, prev_crashed>>

\* What the site has shown for a URL: "ok" or "bad" while every retry_with_timeout
\* call on it ended the same way, "flaky" once two calls differed.
Note(u, o) ==
  [site EXCEPT ![u] = IF site[u] \in {"unknown", o} THEN o ELSE "flaky"]

tool_url == remaining_urls[i]

\* Mutant: the per-URL handler re-raises, into the outer except block.
HandlerReraises ==
  /\ iter_raised' = TRUE
  /\ pc' = "except"

\* except Exception: logger.error(...); continue
HandlerEntered ==
  /\ iter_raised' = TRUE
  /\ pc' = "loop"

\* details is non-empty: tools.append(details); processed_urls.add(tool_url)
ExtractDetails ==
  /\ pc = "extract"
  /\ tools' = Append(tools, Record(tool_url))
  /\ processed_urls' = processed_urls \cup {tool_url}
  /\ since_ckpt' = since_ckpt + 1
  /\ iter_appended' = TRUE
  /\ site' = Note(tool_url, "ok")
  /\ pc' = "writeout"
  /\ UNCHANGED <<remaining_urls, i, attempt, save_ret, checkpoint_file, output_file,
                 runs, loaded_urls, loaded_n, iter_raised, loop_done, ended,
                 prev_crashed>>

\* Mutant: the URL is marked done although details is empty.
ExtractEmptyMarksDone ==
  /\ pc = "extract"
  /\ processed_urls' = processed_urls \cup {tool_url}
  /\ site' = Note(tool_url, "bad")
  /\ pc' = "sleep"
  /\ UNCHANGED <<tools, remaining_urls, i, attempt, save_ret, checkpoint_file,
                 output_file, runs, loaded_urls, loaded_n, since_ckpt,
                 iter_appended, iter_raised, loop_done, ended, prev_crashed>>

\* extract_tool_details caught an exception and returned {}: `if details` is false.
ExtractEmpty ==
  /\ pc = "extract"
  /\ site' = Note(tool_url, "bad")
  /\ pc' = "sleep"
  /\ UNCHANGED <<tools, processed_urls, remaining_urls, i, attempt, save_ret,
                 checkpoint_file, output_file, runs, loaded_urls, loaded_n,
                 since_ckpt, iter_appended, iter_raised, loop_done, ended,
                 prev_crashed>>

\* asyncio.wait_for times out and attempts are left: sleep, then try again.
ExtractTimeoutRetry ==
  /\ pc = "extract"
  /\ MoreAttempts(attempt, MAX_RETRIES)
  /\ attempt' = attempt + 1
  /\ UNCHANGED <<pc, tools, processed_urls, remaining_urls, i, save_ret,
                 checkpoint_file, output_file, site, runs, loaded_urls, loaded_n,
                 since_ckpt, iter_appended, iter_raised, loop_done, ended,
                 prev_crashed>>

\* The last attempt times out: retry_with_timeout raises into the per-URL handler.
ExtractTimeoutRaises ==
  /\ pc = "extract"
  /\ ~MoreAttempts(attempt, MAX_RETRIES)
  /\ site' = Note(tool_url, "bad")
  /\ HandlerEntered
  /\ UNCHANGED <<tools, processed_urls, remaining_urls, i, attempt, save_ret,
                 checkpoint_file, output_file, runs, loaded_urls, loaded_n,
                 since_ckpt, iter_appended, loop_done, ended, prev_crashed>>

\* with open(OUTPUT_FILE, 'w') as f: the file is truncated.
WriteOutputOpen ==
  /\ pc = "writeout"
  /\ output_file' = Truncated
  /\ pc' = "dumpout"
  /\ UNCHANGED <<tools, processed_urls, remaining_urls, i, attempt, save_ret,
                 checkpoint_file, site, runs, loaded_urls, loaded_n, since_ckpt,
                 iter_appended, iter_raised, loop_done, ended, prev_crashed>>

\* open(OUTPUT_FILE, 'w') raises OSError: caught by the per-URL handler.
WriteOutputOpenRaises ==
  /\ pc = "writeout"
  /\ HandlerEntered
  /\ UNCHANGED <<tools, processed_urls, remaining_urls, i, attempt, save_ret,
                 checkpoint_file, output_file, site, runs, loaded_urls, loaded_n,
                 since_ckpt, iter_appended, loop_done, ended, prev_crashed>>

\* if i % 10 == 0: the iteration writes a checkpoint.
CheckpointDue(n) == n % CHECKPOINT_EVERY = 0

\* json.dump(tools, f, indent=2) completes; then `if i % 10 == 0: save_checkpoint`.
WriteOutputDump ==
  /\ pc = "dumpout"
  /\ output_file' = OutputOf(tools)
  /\ IF CheckpointDue(i)
       THEN pc' = "saveopen" /\ save_ret' = "sleep"
       ELSE pc' = "sleep" /\ save_ret' = save_ret
  /\ UNCHANGED <<tools, processed_urls, remaining_urls, i, attempt, checkpoint_file,
                 site, runs, loaded_urls, loaded_n, since_ckpt, iter_appended,
                 iter_raised, loop_done, ended, prev_crashed>>

\* json.dump raises OSError half way: the file stays cut short; per-URL handler.
WriteOutputDumpRaises ==
  /\ pc = "dumpout"
  /\ HandlerEntered
  /\ UNCHANGED <<tools, processed_urls, remaining_urls, i, attempt, save_ret,
                 checkpoint_file, output_file, site, runs, loaded_urls, loaded_n,
                 since_ckpt, iter_appended, loop_done, ended, prev_crashed>>

\* --------------------------------------------------------- save_checkpoint
\* with open(CHECKPOINT_FILE, 'w') as f: the file is truncated in place.
SaveOpen ==
  /\ pc = "saveopen"
  /\ checkpoint_file' = Truncated
  /\ pc' = "savedump"
  /\ UNCHANGED <<tools, processed_urls, remaining_urls, i, attempt, save_ret,
                 output_file, site, runs, loaded_urls, loaded_n, since_ckpt,
                 iter_appended, iter_raised, loop_done, ended, prev_crashed>>

\* json.dump(checkpoint, f, indent=2) completes and save_checkpoint returns.
SaveDump ==
  /\ pc = "savedump"
  /\ checkpoint_file' = CheckpointOf(tools, processed_urls)
  /\ since_ckpt' = 0
  /\ pc' = save_ret
  /\ save_ret' = "none"
  /\ UNCHANGED <<tools, processed_urls, remaining_urls, i, attempt, output_file,
                 site, runs, loaded_urls, loaded_n, iter_appended, iter_raised,
                 loop_done, ended, prev_crashed>>

\* save_checkpoint raises OSError (at open, or in json.dump with the file cut
\* short).  Called from the loop, the per-URL handler catches it; called from the
\* outer except block, it leaves scrape_tools after the finally block.
SaveRaises ==
  /\ pc \in {"saveopen", "savedump"}
  /\ IF save_ret = "sleep"
       THEN HandlerEntered /\ ended' = ended
       ELSE pc' = "raised" /\ ended' = "save_error" /\ iter_raised' = iter_raised
  /\ save_ret' = "none"
  /\ UNCHANGED <<tools, processed_urls, remaining_urls, i, attempt,
                 checkpoint_file, output_file, site, runs, loaded_urls, loaded_n,
                 since_ckpt, iter_appended, loop_done, prev_crashed>>

\* ------------------------------------------------- scrape_tools, continued
\* await asyncio.sleep(DELAY_BETWEEN_TOOLS): the iteration ends normally.
Sleep ==
  /\ pc = "sleep"
  /\ pc' = "loop"
  /\ UNCHANGED <<tools, processed_urls, remaining_urls, i, attempt, save_ret,
                 checkpoint_file, output_file, site, runs, loaded_urls, loaded_n,
                 since_ckpt, iter_appended, iter_raised, loop_done, ended,
                 prev_crashed>>

\* The loop is exhausted: if os.path.exists(CHECKPOINT_FILE): os.remove(...)
LoopComplete ==
  /\ pc = "loop"
  /\ i >= Len(remaining_urls)
  /\ loop_done' = TRUE
  /\ checkpoint_file' = Absent
  /\ pc' = "csv"
  /\ UNCHANGED <<tools, processed_urls, remaining_urls, i, attempt, save_ret,
                 output_file, site, runs, loaded_urls, loaded_n, since_ckpt,
                 iter_appended, iter_raised, ended, prev_crashed>>

\* json_to_csv(OUTPUT_FILE, csv_file_path) reads the output file with json.load.
CsvReadable(f) == f.kind = "complete"

\* json_to_csv returns.
ConvertCsv ==
  /\ pc = "csv"
  /\ CsvReadable(output_file)
  /\ ended' = "completed"
  /\ pc' = "finally"
  /\ UNCHANGED <<tools, processed_urls, remaining_urls, i, attempt, save_ret,
                 checkpoint_file, output_file, site, runs, loaded_urls, loaded_n,
                 since_ckpt, iter_appended, iter_raised, loop_done, prev_crashed>>

\* json_to_csv raises (no or unreadable output file, or the CSV cannot be
\* written): the outer except block is entered.
ConvertCsvRaises ==
  /\ pc = "csv"
  /\ pc' = "except"
  /\ UNCHANGED <<tools, processed_urls, remaining_urls, i, attempt, save_ret,
                 checkpoint_file, output_file, site, runs, loaded_urls, loaded_n,
                 since_ckpt, iter_appended, iter_raised, loop_done, ended,
                 prev_crashed>>

\* Mutant: the outer handler only logs.
OuterExceptLogsOnly ==
  /\ pc = "except"
  /\ ended' = "aborted"
  /\ pc' = "finally"
  /\ UNCHANGED <<tools, processed_urls, remaining_urls, i, attempt, save_ret,
                 checkpoint_file, output_file, site, runs, loaded_urls, loaded_n,
                 since_ckpt, iter_appended, iter_raised, loop_done, prev_crashed>>

\* except Exception as e: ... save_checkpoint(tools, processed_urls)
OuterExcept ==
  /\ pc = "except"
  /\ ended' = "aborted"
  /\ save_ret' = "finally"
  /\ pc' = "saveopen"
  /\ UNCHANGED <<tools, processed_urls, remaining_urls, i, attempt,
                 checkpoint_file, output_file, site, runs, loaded_urls, loaded_n,
                 since_ckpt, iter_appended, iter_raised, loop_done, prev_crashed>>

\* finally: context.close(); browser.close(); scrape_tools returns.
Finally ==
  /\ pc = "finally"
  /\ pc' = "returned"
  /\ UNCHANGED <<tools, processed_urls, remaining_urls, i, attempt, save_ret,
                 checkpoint_file, output_file, site, runs, loaded_urls, loaded_n,
                 since_ckpt, iter_appended, iter_raised, loop_done, ended,
                 prev_crashed>>

\* ------------------------------------------------------------- the process
Running == {"load", "launch", "goto", "discover", "loop", "extract", "writeout",
            "dumpout", "saveopen", "savedump", "sleep", "csv", "except", "finally"}
Stopped == {"crashed", "returned", "raised", "fatal"}

\* The memory of a process that has not yet run load_checkpoint.
FreshMemory ==
  /\ tools' = <<>>
  /\ processed_urls' = {}
  /\ remaining_urls' = <<>>
  /\ i' = 0
  /\ attempt' = 0
  /\ save_ret' = "none"
  /\ loaded_urls' = {}
  /\ loaded_n' = 0
  /\ since_ckpt' = 0
  /\ iter_appended' = FALSE
  /\ iter_raised' = FALSE
  /\ loop_done' = FALSE

\* The process is killed: only the files survive.
Crash ==
  /\ pc \in Running
  /\ pc' = "crashed"
  /\ ended' = "crashed"
  /\ FreshMemory
  /\ UNCHANGED <<checkpoint_file, output_file, site, runs, prev_crashed>>

\* The program is started again (asyncio.run(scrape_tools()) in main()).
Restart ==
  /\ pc \in Stopped
  /\ runs < MaxRuns
  /\ runs' = runs + 1
  /\ prev_crashed' = (pc = "crashed")
  /\ pc' = "load"
  /\ ended' = "running"
  /\ FreshMemory
  /\ UNCHANGED <<checkpoint_file, output_file, site>>

NoResult == [kind |-> "none", value |-> "none"]

RetryIdle ==
  /\ r_pc = "idle"
  /\ max_retries = 0
  /\ r_attempt = 0
  /\ r_calls = <<>>
  /\ r_sleeps = <<>>
  /\ r_result = NoResult

\* No categorize_tool call is under test.
ClassIdle ==
  /\ c_pc = "idle"
  /\ arg_name = PyNone
  /\ arg_description = PyNone
  /\ name = PyNone
  /\ description = PyNone
  /\ combined_text = ""
  /\ matches = <<>>
  /\ c_cat = 0
  /\ c_result = NoResult

\* No extract_tool_details call is under test.
ExtractIdle ==
  /\ e_pc = "idle"
  /\ page = "none"
  /\ tool_data = "none"
  /\ details = "none"
  /\ e_tools = <<>>
  /\ e_processed = {}
  /\ logo_candidates = "none"
  /\ logo_phases = <<>>

\* No extract_with_fallback call is under test.
FallbackIdle ==
  /\ f_pc = "idle"
  /\ html_element = "none"
  /\ xpath_selector = PyNone
  /\ f_result = NoResult
\* No extract_description_parts call is under test.
PartsIdle ==
  /\ p_pc = "idle"
  /\ p_description = PyNone
  /\ parts = "none"
  /\ p_result = NoResult

\* No clean_url call is under test.
UrlIdle ==
  /\ u_pc = "idle"
  /\ u_arg = PyNone
  /\ u_url = PyNone
  /\ u_call = 0
  /\ u_results = <<>>

\* No json_to_csv call is under test.
CsvIdle ==
  /\ v_pc = "idle"
  /\ item = "none"
  /\ social_links = <<>>
  /\ important_links = <<>>
  /\ logo_url = PyNone
  /\ img_url = PyNone
  /\ field = 0
  /\ flat_item = "none"

\* No load_all_tools call is under test.
PagesIdle ==
  /\ t_pc = "idle"
  /\ page_num = 0
  /\ t_urls = {}
  /\ t_listed = 0
  /\ t_result = NoResult

\* No get_llm_category call is under test.
LlmIdle ==
  /\ g_pc = "idle"
  /\ g_name = PyNone
  /\ g_description = PyNone
  /\ keyword_category = ""
  /\ g_path = ""
  /\ g_llm_called = FALSE
  /\ g_result = NoResult

ToolsIdle == UrlIdle /\ CsvIdle /\ PagesIdle /\ LlmIdle

UnitsIdle ==
  ClassIdle /\ ExtractIdle /\ FallbackIdle /\ PartsIdle /\ ToolsIdle

\* The first start of the program on a category page of n tools: no file exists.
InitScrape(n) ==
  /\ pc = "load"
  /\ tools = <<>>
  /\ processed_urls = {}
  /\ remaining_urls = <<>>
  /\ i = 0
  /\ attempt = 0
  /\ save_ret = "none"
  /\ checkpoint_file = Absent
  /\ output_file = Absent
  /\ site = [u \in 1..n |-> "unknown"]
  /\ runs = 1
  /\ loaded_urls = {}
  /\ loaded_n = 0
  /\ since_ckpt = 0
  /\ iter_appended = FALSE
  /\ iter_raised = FALSE
  /\ loop_done = FALSE
  /\ ended = "running"
  /\ prev_crashed = FALSE

\* No scrape_tools run is under way.
ScrapeIdle == InitScrape(0)

Init == InitScrape(MaxUrls) /\ RetryIdle /\ UnitsIdle

\* The steps of the process, the kill and the restart.
NextCore ==
  \/ (Load /\ UNCHANGED notScrapeVars)
  \/ (Launch /\ UNCHANGED notScrapeVars)
  \/ (LaunchRaises /\ UNCHANGED notScrapeVars)
  \/ (GotoCategory /\ UNCHANGED notScrapeVars)
  \/ (GotoCategoryRaises /\ UNCHANGED notScrapeVars)
  \/ (Discover /\ UNCHANGED notScrapeVars)
  \/ (LoopNext /\ UNCHANGED notScrapeVars)
  \/ (ExtractDetails /\ UNCHANGED notScrapeVars)
  \/ (ExtractEmpty /\ UNCHANGED notScrapeVars)
  \/ (ExtractTimeoutRetry /\ UNCHANGED notScrapeVars)
  \/ (ExtractTimeoutRaises /\ UNCHANGED notScrapeVars)
  \/ (WriteOutputOpen /\ UNCHANGED notScrapeVars)
  \/ (WriteOutputDump /\ UNCHANGED notScrapeVars)
  \/ (SaveOpen /\ UNCHANGED notScrapeVars)
  \/ (SaveDump /\ UNCHANGED notScrapeVars)
  \/ (Sleep /\ UNCHANGED notScrapeVars)
  \/ (LoopComplete /\ UNCHANGED notScrapeVars)
  \/ (ConvertCsv /\ UNCHANGED notScrapeVars)
  \/ (ConvertCsvRaises /\ UNCHANGED notScrapeVars)
  \/ (OuterExcept /\ UNCHANGED notScrapeVars)
  \/ (Finally /\ UNCHANGED notScrapeVars)
  \/ (Crash /\ UNCHANGED notScrapeVars)
  \/ (Restart /\ UNCHANGED notScrapeVars)

\* File writes that raise OSError.
NextIo ==
  \/ (WriteOutputOpenRaises /\ UNCHANGED notScrapeVars)
  \/ (WriteOutputDumpRaises /\ UNCHANGED notScrapeVars)
  \/ (SaveRaises /\ UNCHANGED notScrapeVars)

Next == NextCore \/ NextIo

Spec == Init /\ [][Next]_vars

\* The same program on a disk whose writes never raise.
SpecCore == Init /\ [][NextCore]_vars

\* The long crawl: enough URLs for the periodic checkpoint to come due, every
\* run listing all of them, at most MaxFailed of them failing, file writes
\* succeeding.
FailedUrls(s) == {u \in DOMAIN s : s[u] \in {"bad", "flaky"}}

LongCrawl ==
  /\ Cardinality(FailedUrls(site')) <= MaxFailed
  /\ pc = "discover" =>
       ListToSet(remaining_urls') \cup processed_urls = DOMAIN site
  /\ UNCHANGED notScrapeVars

InitCadence == InitScrape(CadenceUrls) /\ RetryIdle /\ UnitsIdle

NextCadence ==
  \/ (Load /\ LongCrawl)
  \/ (Launch /\ LongCrawl)
  \/ (LaunchRaises /\ LongCrawl)
  \/ (GotoCategory /\ LongCrawl)
  \/ (GotoCategoryRaises /\ LongCrawl)
  \/ (Discover /\ LongCrawl)
  \/ (LoopNext /\ LongCrawl)
  \/ (ExtractDetails /\ LongCrawl)
  \/ (ExtractEmpty /\ LongCrawl)
  \/ (ExtractTimeoutRetry /\ LongCrawl)
  \/ (ExtractTimeoutRaises /\ LongCrawl)
  \/ (WriteOutputOpen /\ LongCrawl)
  \/ (WriteOutputDump /\ LongCrawl)
  \/ (SaveOpen /\ LongCrawl)
  \/ (SaveDump /\ LongCrawl)
  \/ (Sleep /\ LongCrawl)
  \/ (LoopComplete /\ LongCrawl)
  \/ (ConvertCsv /\ LongCrawl)
  \/ (ConvertCsvRaises /\ LongCrawl)
  \/ (OuterExcept /\ LongCrawl)
  \/ (Finally /\ LongCrawl)
  \/ (Crash /\ LongCrawl)
  \/ (Restart /\ LongCrawl)

SpecCadence == InitCadence /\ [][NextCadence]_vars

\* The process left to run: no kill.  Every step of scrape_tools is taken by the
\* one coroutine asyncio.run drives, so a step that can be taken is taken.
NextRun ==
  \/ (Load /\ UNCHANGED notScrapeVars)
  \/ (Launch /\ UNCHANGED notScrapeVars)
  \/ (LaunchRaises /\ UNCHANGED notScrapeVars)
  \/ (GotoCategory /\ UNCHANGED notScrapeVars)
  \/ (GotoCategoryRaises /\ UNCHANGED notScrapeVars)
  \/ (Discover /\ UNCHANGED notScrapeVars)
  \/ (LoopNext /\ UNCHANGED notScrapeVars)
  \/ (ExtractDetails /\ UNCHANGED notScrapeVars)
  \/ (ExtractEmpty /\ UNCHANGED notScrapeVars)
  \/ (ExtractTimeoutRetry /\ UNCHANGED notScrapeVars)
  \/ (ExtractTimeoutRaises /\ UNCHANGED notScrapeVars)
  \/ (WriteOutputOpen /\ UNCHANGED notScrapeVars)
  \/ (WriteOutputOpenRaises /\ UNCHANGED notScrapeVars)
  \/ (WriteOutputDump /\ UNCHANGED notScrapeVars)
  \/ (WriteOutputDumpRaises /\ UNCHANGED notScrapeVars)
  \/ (SaveOpen /\ UNCHANGED notScrapeVars)
  \/ (SaveDump /\ UNCHANGED notScrapeVars)
  \/ (SaveRaises /\ UNCHANGED notScrapeVars)
  \/ (Sleep /\ UNCHANGED notScrapeVars)
  \/ (LoopComplete /\ UNCHANGED notScrapeVars)
  \/ (ConvertCsv /\ UNCHANGED notScrapeVars)
  \/ (ConvertCsvRaises /\ UNCHANGED notScrapeVars)
  \/ (OuterExcept /\ UNCHANGED notScrapeVars)
  \/ (Finally /\ UNCHANGED notScrapeVars)

\* The records of the URLs of S, in the order of the listing.
RecordsOf(S) == [k \in 1..Cardinality(S) |-> Record(SetToList(S)[k])]

\* A start of the program: on a clean directory, or on the files an earlier run
\* left when its outer except block saved a checkpoint for the URLs of S.
InitRun ==
  \E S \in SUBSET (1..MaxUrls) :
    /\ pc = "load"
    /\ tools = <<>>
    /\ processed_urls = {}
    /\ remaining_urls = <<>>
    /\ i = 0
    /\ attempt = 0
    /\ save_ret = "none"
    /\ checkpoint_file = IF S = {} THEN Absent ELSE CheckpointOf(RecordsOf(S), S)
    /\ output_file = IF S = {} THEN Absent ELSE OutputOf(RecordsOf(S))
    /\ site = [u \in 1..MaxUrls |-> IF u \in S THEN "ok" ELSE "unknown"]
    /\ runs = IF S = {} THEN 1 ELSE 2
    /\ loaded_urls = {}
    /\ loaded_n = 0
    /\ since_ckpt = 0
    /\ iter_appended = FALSE
    /\ iter_raised = FALSE
    /\ loop_done = FALSE
    /\ ended = "running"
    /\ prev_crashed = FALSE
    /\ RetryIdle /\ UnitsIdle

SpecRun == InitRun /\ [][NextRun]_vars /\ WF_vars(NextRun)

\* ------------------------------------------------------ retry_with_timeout
\* What one call of func() under asyncio.wait_for can do: return a value, exceed
\* the timeout (asyncio.TimeoutError) or raise another exception.
FuncValues == {"v1", "v2"}
FuncErrors == {"TimeoutError", "Exception"}

\* for attempt in range(max_retries): the loop body runs for this attempt.
InRange(a, m) == a < m

\* return await asyncio.wait_for(func(), ...): the attempt succeeds.
RetryReturns ==
  /\ r_pc = "try"
  /\ InRange(r_attempt, max_retries)
  /\ \E v \in FuncValues :
       /\ r_calls' = Append(r_calls, v)
       /\ r_result' = [kind |-> "returned", value |-> v]
  /\ r_pc' = "done"
  /\ UNCHANGED <<max_retries, r_attempt, r_sleeps>>

\* The attempt fails and attempt < max_retries - 1: sleep 2 ** (attempt + 1).
RetrySleeps ==
  /\ r_pc = "try"
  /\ InRange(r_attempt, max_retries)
  /\ MoreAttempts(r_attempt, max_retries)
  /\ \E e \in FuncErrors : r_calls' = Append(r_calls, e)
  /\ r_sleeps' = Append(r_sleeps, RetryDelay(r_attempt))
  /\ r_attempt' = r_attempt + 1
  /\ UNCHANGED <<r_pc, max_retries, r_result>>

\* The attempt fails and it was the last one: raise.
RetryRaises ==
  /\ r_pc = "try"
  /\ InRange(r_attempt, max_retries)
  /\ ~MoreAttempts(r_attempt, max_retries)
  /\ \E e \in FuncErrors :
       /\ r_calls' = Append(r_calls, e)
       /\ r_result' = [kind |-> "raised", value |-> e]
  /\ r_pc' = "done"
  /\ UNCHANGED <<max_retries, r_attempt, r_sleeps>>

\* range(max_retries) is exhausted without return or raise: the function falls
\* off its end and returns None.
RetryFallsThrough ==
  /\ r_pc = "try"
  /\ ~InRange(r_attempt, max_retries)
  /\ r_result' = [kind |-> "returned", value |-> "None"]
  /\ r_pc' = "done"
  /\ UNCHANGED <<max_retries, r_attempt, r_calls, r_sleeps>>

\* A call retry_with_timeout(func, max_retries) for each max_retries up to the bound.
InitRetry ==
  /\ InitScrape(0)
  /\ r_pc = "try"
  /\ max_retries \in 0..MaxRetriesArg
  /\ r_attempt = 0
  /\ r_calls = <<>>
  /\ r_sleeps = <<>>
  /\ r_result = NoResult
  /\ UnitsIdle

NextRetry ==
  \/ (RetryReturns /\ UNCHANGED notRetryVars)
  \/ (RetrySleeps /\ UNCHANGED notRetryVars)
  \/ (RetryRaises /\ UNCHANGED notRetryVars)
  \/ (RetryFallsThrough /\ UNCHANGED notRetryVars)

SpecRetry == InitRetry /\ [][NextRetry]_vars

\* ----------------------------------------------------------- categorize_tool
\* CATEGORIES, in the order of the dict: (keyword, weight) pairs per category.
CATEGORIES == <<
  [category |-> "Marketing & Advertising", keywords |-> <<
     <<"ad campaign", 3>>, <<"ppc", 3>>, <<"advertising", 3>>,
     <<"ad management", 3>>, <<"media buying", 3>>, <<"display ads", 3>>,
     <<"google ads", 3>>, <<"facebook ads", 3>>, <<"ad optimization", 3>>,
     <<"campaign management", 2>>, <<"digital advertising", 2>>,
     <<"marketing campaign", 2>>, <<"ad targeting", 2>>, <<"marketing", 1>>,
     <<"advertising", 1>>, <<"ads", 1>> >>],
  [category |-> "Social Media Marketing", keywords |-> <<
     <<"social media management", 3>>, <<"social scheduling", 3>>,
     <<"social analytics", 3>>, <<"social engagement", 3>>,
     <<"instagram marketing", 3>>, <<"twitter marketing", 3>>,
     <<"linkedin marketing", 3>>, <<"tiktok marketing", 3>>,
     <<"social strategy", 2>>, <<"social content", 2>>, <<"social media", 2>>,
     <<"social platform", 2>>, <<"engagement", 1>>, <<"followers", 1>>,
     <<"social", 1>> >>],
  [category |-> "Content Marketing", keywords |-> <<
     <<"content creation", 3>>, <<"blog writing", 3>>, <<"copywriting", 3>>,
     <<"content strategy", 3>>, <<"content planning", 3>>,
     <<"article writing", 3>>, <<"content generation", 3>>,
     <<"content optimization", 2>>, <<"content calendar", 2>>,
     <<"content distribution", 2>>, <<"content analytics", 2>>,
     <<"content", 1>>, <<"writing", 1>>, <<"blog", 1>> >>],
  [category |-> "Email Marketing", keywords |-> <<
     <<"email automation", 3>>, <<"newsletter", 3>>, <<"email campaign", 3>>,
     <<"email sequence", 3>>, <<"drip campaign", 3>>, <<"email template", 3>>,
     <<"email analytics", 2>>, <<"email optimization", 2>>,
     <<"email deliverability", 2>>, <<"subscriber", 2>>,
     <<"autoresponder", 2>>, <<"broadcast", 2>>, <<"email", 1>>,
     <<"newsletter", 1>>, <<"campaign", 1>> >>],
  [category |-> "SEO Tools", keywords |-> <<
     <<"keyword research", 3>>, <<"rank tracking", 3>>,
     <<"backlink analysis", 3>>, <<"seo optimization", 3>>,
     <<"serp tracking", 3>>, <<"site audit", 3>>, <<"technical seo", 2>>,
     <<"on page seo", 2>>, <<"off page seo", 2>>, <<"keyword tracking", 2>>,
     <<"seo analytics", 2>>, <<"seo", 1>>, <<"ranking", 1>>,
     <<"search engine", 1>> >>],
  [category |-> "Analytics & Insights", keywords |-> <<
     <<"marketing analytics", 3>>, <<"performance tracking", 3>>,
     <<"conversion tracking", 3>>, <<"attribution", 3>>,
     <<"marketing metrics", 3>>, <<"roi tracking", 3>>,
     <<"data visualization", 2>>, <<"reporting", 2>>, <<"dashboard", 2>>,
     <<"metrics", 2>>, <<"kpi", 2>>, <<"analytics", 1>>, <<"tracking", 1>>,
     <<"insights", 1>> >>],
  [category |-> "Marketing Automation", keywords |-> <<
     <<"workflow automation", 3>>, <<"crm integration", 3>>,
     <<"marketing workflow", 3>>, <<"lead nurturing", 3>>,
     <<"automated campaign", 3>>, <<"trigger", 3>>,
     <<"marketing pipeline", 2>>, <<"lead scoring", 2>>,
     <<"automation rules", 2>>, <<"marketing tasks", 2>>, <<"automation", 1>>,
     <<"workflow", 1>>, <<"integration", 1>> >>],
  [category |-> "Visual Marketing", keywords |-> <<
     <<"video generation", 3>>, <<"video creation", 3>>,
     <<"video marketing", 3>>, <<"social media image", 3>>,
     <<"ad creative", 3>>, <<"marketing design", 3>>,
     <<"thumbnail generator", 3>>, <<"visual content", 3>>,
     <<"video production", 3>>, <<"banner design", 2>>,
     <<"social graphic", 2>>, <<"video editing", 2>>,
     <<"marketing template", 2>>, <<"brand visual", 2>>,
     <<"video content", 2>>, <<"design", 1>>, <<"visual", 1>>,
     <<"creative", 1>>, <<"video", 1>> >>]
>>

CategoryNames == {CATEGORIES[k].category : k \in 1..Len(CATEGORIES)}

\* marketing_terms
marketing_terms == <<"marketing", "advertis", "promotion", "campaign", "brand">>

\* marketing_features
marketing_features ==
  [c \in CategoryNames |->
     CASE c = "Content Marketing" ->
            <<"document", "pdf", "text", "content", "write", "edit">>
       [] c = "Visual Marketing" ->
            <<"video", "image", "visual", "design", "creative">>
       [] c = "Analytics & Insights" ->
            <<"analyze", "track", "measure", "report", "insight">>
       [] c = "Marketing Automation" ->
            <<"automate", "workflow", "process", "generate">>
       [] c = "SEO Tools" -> <<"search", "keyword", "rank", "traffic", "seo">>
       [] c = "Social Media Marketing" ->
            <<"social", "post", "share", "engage", "follower">>
       [] c = "Email Marketing" ->
            <<"email", "newsletter", "sequence", "broadcast">>
       [] c = "Marketing & Advertising" ->
            <<"ad", "campaign", "conversion", "target">>]

\* The terms that turn a low score into "Content Marketing".
document_terms == <<"document", "pdf", "text processing", "convert">>

\* if best_score >= 3
MIN_SCORE == 3
DEFAULT_CATEGORY == "Marketing & Advertising"

\* Scores are kept in halves (a score of 4.5 is 9), since weight * 1.5 is not
\* an integer.
Halves(x) == 2 * x

\* The number of terms of the list that occur in the text.
Occurring(terms, text) ==
  Cardinality({k \in 1..Len(terms) : In(terms[k], text)})

\* total_score += 2 for every marketing term in combined_text.
ContextScore(combined) == Halves(2) * Occurring(marketing_terms, combined)

\* The if/elif/elif chain of one (keyword, weight) pair.
KeywordScore(pair, nm, desc, combined) ==
  LET keyword == clean_text(pair[1])
      weight == pair[2]
  IN IF In(" " \o keyword \o " ", " " \o combined \o " ") THEN Halves(weight) * 2
     ELSE IF In(keyword, nm) THEN 3 * weight
     ELSE IF In(keyword, desc) THEN Halves(weight)
     ELSE 0

RECURSIVE KeywordsScore(_, _, _, _)
\* for keyword, weight in keywords: ...
KeywordsScore(keywords, nm, desc, combined) ==
  IF keywords = <<>> THEN 0
  ELSE KeywordScore(Head(keywords), nm, desc, combined)
         + KeywordsScore(Tail(keywords), nm, desc, combined)

\* total_score += 1 for every feature of the category in combined_text.
FeatureScore(category, combined) ==
  Halves(1) * Occurring(marketing_features[category], combined)

\* total_score of one category at the end of its loop body.
TotalScore(cat, nm, desc, combined) ==
  ContextScore(combined)
    + KeywordsScore(cat.keywords, nm, desc, combined)
    + FeatureScore(cat.category, combined)

\* max(matches.items(), key=lambda x: x[1]): the first entry with the top score.
BestMatch(ms) ==
  LET top == CHOOSE k \in 1..Len(ms) :
               /\ \A j \in 1..Len(ms) : ms[j].score <= ms[k].score
               /\ \A j \in 1..(k - 1) : ms[j].score < ms[k].score
  IN ms[top]

\* The statements after the loop: the category categorize_tool returns.
SelectCategory(ms, combined) ==
  IF ms # <<>> /\ BestMatch(ms).score >= Halves(MIN_SCORE)
    THEN BestMatch(ms).category
  ELSE IF ms # <<>> /\ Occurring(document_terms, combined) > 0
    THEN "Content Marketing"
  ELSE DEFAULT_CATEGORY

\* matches after the loop over CATEGORIES: the categories with a positive
\* total_score, in dict order.
MatchesOf(nm, desc, combined) ==
  SelectSeq([k \in 1..Len(CATEGORIES) |->
               [category |-> CATEGORIES[k].category,
                score |-> TotalScore(CATEGORIES[k], nm, desc, combined)]],
            LAMBDA m : m.score > 0)

\* categorize_tool(name, description) as a whole: text.lower() in clean_text
\* raises AttributeError on a value that is not a str.
categorize_tool(n, d) ==
  IF n.type # "str" \/ d.type # "str" THEN Raised("AttributeError")
  ELSE LET nm == clean_text(n.s)
           desc == clean_text(d.s)
           combined == nm \o " " \o desc
       IN Returned(SelectCategory(MatchesOf(nm, desc, combined), combined))

\* name = clean_text(name); description = clean_text(description);
\* combined_text = f"{name} {description}"
CategorizeClean ==
  /\ c_pc = "clean"
  /\ name.type = "str" /\ description.type = "str"
  /\ name' = PyStr(clean_text(name.s))
  /\ description' = PyStr(clean_text(description.s))
  /\ combined_text' = clean_text(name.s) \o " " \o clean_text(description.s)
  /\ c_cat' = 1
  /\ c_pc' = "score"
  /\ UNCHANGED <<arg_name, arg_description, matches, c_result>>

\* clean_text raises on None or a number: nothing in categorize_tool catches it.
CategorizeCleanRaises ==
  /\ c_pc = "clean"
  /\ name.type # "str" \/ description.type # "str"
  /\ c_result' = Raised("AttributeError")
  /\ c_pc' = "done"
  /\ UNCHANGED <<arg_name, arg_description, name, description, combined_text,
                 matches, c_cat>>

\* One pass of `for category, keywords in CATEGORIES.items()`.
CategorizeScore ==
  /\ c_pc = "score"
  /\ c_cat <= Len(CATEGORIES)
  /\ LET total_score == TotalScore(CATEGORIES[c_cat], name.s, description.s,
                                   combined_text)
     IN matches' = IF total_score > 0
                     THEN Append(matches, [category |-> CATEGORIES[c_cat].category,
                                           score |-> total_score])
                   ELSE matches
  /\ c_cat' = c_cat + 1
  /\ UNCHANGED <<c_pc, arg_name, arg_description, name, description,
                 combined_text, c_result>>

\* The loop is over: threshold test and return.
CategorizeReturn ==
  /\ c_pc = "score"
  /\ c_cat > Len(CATEGORIES)
  /\ c_result' = Returned(SelectCategory(matches, combined_text))
  /\ c_pc' = "done"
  /\ UNCHANGED <<arg_name, arg_description, name, description, combined_text,
                 matches, c_cat>>

\* The names and descriptions categorize_tool is called with.
NameArgs ==
  {PyStr(""), PyStr("X"), PyStr("Foo"), PyStr("AdPilot"), PyStr("PDF Kit"),
   PyStr("Roads & Maps"), PyNone, PyInt}
DescriptionArgs ==
  {PyStr(""), PyStr("a completely unrelated sentence about gardening"),
   PyStr("this tool offers marketing automation"), PyStr("convert pdf"),
   PyStr("Plan your next Ad-Campaign!"), PyStr("write a blog"),
   PyStr("SEO keyword research\nand rank tracking"), PyStr("video"),
   PyStr("email"), PyNone}

InitCategorize ==
  /\ ScrapeIdle /\ RetryIdle /\ ExtractIdle /\ FallbackIdle /\ PartsIdle
  /\ ToolsIdle
  /\ c_pc = "clean"
  /\ arg_name \in NameArgs
  /\ arg_description \in DescriptionArgs
  /\ name = arg_name
  /\ description = arg_description
  /\ combined_text = ""
  /\ matches = <<>>
  /\ c_cat = 0
  /\ c_result = NoResult

NextCategorize ==
  \/ (CategorizeClean /\ UNCHANGED notClassVars)
  \/ (CategorizeCleanRaises /\ UNCHANGED notClassVars)
  \/ (CategorizeScore /\ UNCHANGED notClassVars)
  \/ (CategorizeReturn /\ UNCHANGED notClassVars)

SpecCategorize == InitCategorize /\ [][NextCategorize]_vars

\* ------------------------------------------------------ extract_tool_details
\* A dict with str keys: the set of its keys, and per key its value (the value of
\* a key the dict lacks is never read).
EmptyDict ==
  [keys |-> {}, name |-> "", full_screenshot_url |-> "",
   content_screenshot_url |-> "", img_url |-> "", meta_description |-> "",
   full_description |-> "", features |-> <<>>, social_links |-> <<>>,
   pricing_link |-> "", logo_url |-> "", category |-> ""]

\* d[k] = v
SetItem(d, k, v) == [d EXCEPT !.keys = @ \cup {k}, ![k] = v]

\* d.get(k) is truthy, for a str-valued key.
Truthy(d, k) == k \in d.keys /\ d[k] # ""

RECURSIVE Replace(_, _, _)
\* s.replace(old, new): non-overlapping occurrences, left to right.
Replace(s, old, new) ==
  IF Len(s) < Len(old) THEN s
  ELSE IF SubSeq(s, 1, Len(old)) = old
    THEN new \o Replace(SubSeq(s, Len(old) + 1, Len(s)), old, new)
  ELSE Head(s) \o Replace(Tail(s), old, new)

RECURSIVE FileChars(_)
\* "".join(c for c in tool_name if c.isalnum() or c in (' ', '-', '_'))
FileChars(s) ==
  IF s = "" THEN ""
  ELSE (IF \/ HasChar(ASCII_LOWER, Head(s)) \/ HasChar(ASCII_UPPER, Head(s))
           \/ HasChar(DIGITS, Head(s)) \/ Head(s) \in {" ", "-", "_"}
          THEN Head(s) ELSE "") \o FileChars(Tail(s))

\* clean_name of take_tool_screenshot.
CleanName(tool_name) == lower(Replace(strip(FileChars(tool_name)), " ", "_"))

\* The URL extract_tool_details builds from a screenshot path.
ScreenshotUrl(tool_name, kind) ==
  "https://cdn-images.toolify.ai/screenshots/" \o CleanName(tool_name)
    \o "_" \o kind \o ".png"

\* What take_tool_screenshot can return: {} (page.screenshot raised), the full
\* page only, or the full page and the content element.
ScreenshotOutcomes == {{}, {"full"}, {"full", "content"}}

\* The name block: h1 found, screenshots taken, img_url set.
WithName(d, h1_text, shots) ==
  LET nm == strip(h1_text)
      d1 == SetItem(d, "name", nm)
      d2 == IF "full" \in shots
              THEN SetItem(d1, "full_screenshot_url", ScreenshotUrl(nm, "full"))
            ELSE d1
      d3 == IF "content" \in shots
              THEN SetItem(d2, "content_screenshot_url",
                           ScreenshotUrl(nm, "content"))
            ELSE d2
  IN IF "content" \in shots THEN SetItem(d3, "img_url", d3.content_screenshot_url)
     ELSE IF "full" \in shots THEN SetItem(d3, "img_url", d3.full_screenshot_url)
     ELSE d3

\* description.replace('\n', ' ').replace('  ', ' ').strip()
FullDescription(text) == strip(Replace(Replace(text, "\n", " "), "  ", " "))

\* urljoin(tool_website, src) for a src that starts with one '/': scheme and
\* host of the website, then src.
Origin(url) ==
  LET scheme == IF StartsWith(url, "https://") THEN "https://" ELSE "http://"
      rest == SubSeq(url, Len(scheme) + 1, Len(url))
      cut == IF HasChar(rest, "/")
               THEN (CHOOSE k \in 1..Len(rest) :
                       /\ SubSeq(rest, k, k) = "/"
                       /\ \A j \in 1..(k - 1) : SubSeq(rest, j, j) # "/") - 1
             ELSE Len(rest)
  IN scheme \o SubSeq(rest, 1, cut)

\* "Make URL absolute" on the tool's own website.
AbsoluteOnWebsite(src, tool_website) ==
  IF StartsWith(src, "//") THEN "https:" \o src
  ELSE IF StartsWith(src, "/") THEN Origin(tool_website) \o src
  ELSE src

\* "Make URL absolute" on the toolify page.
AbsoluteOnToolify(src) ==
  IF StartsWith(src, "/") THEN "https://www.toolify.ai" \o src
  ELSE IF StartsWith(src, "./")
    THEN "https://www.toolify.ai" \o SubSeq(src, 2, Len(src))
  ELSE src

logo_terms == <<"logo", "brand", "icon">>

\* any(term in src.lower() or term in alt.lower() for term in [...])
HasLogoTerm(src, alt) ==
  Occurring(logo_terms, lower(src)) + Occurring(logo_terms, lower(alt)) > 0

\* 0.8 <= dimensions[0] / dimensions[1] <= 1.2
Squarish(w, h) == 8 * h <= 10 * w /\ 10 * w <= 12 * h

Min(a, b) == IF a <= b THEN a ELSE b
Max(a, b) == IF a >= b THEN a ELSE b
AbsDiff(a, b) == IF a >= b THEN a - b ELSE b - a

\* logo_score of an image of the tool's website.
WebsiteLogoScore(src, alt, w, h, nm) ==
  (IF HasLogoTerm(src, alt) THEN 5 ELSE 0)
    + (IF In(lower(nm), lower(alt)) \/ In(lower(nm), lower(src)) THEN 8 ELSE 0)
    + (IF Squarish(w, h) THEN 3 ELSE 0)
    + (IF 32 <= Min(w, h) /\ Min(w, h) <= 200 THEN 2 ELSE 0)

\* logo_score of an image of the toolify page.
ToolifyLogoScore(src, alt, w, h, nm) ==
  (IF In(lower(nm), lower(alt)) /\ In("cdn-images.toolify.ai", src) THEN 8 ELSE 0)
    + (IF HasLogoTerm(src, alt) THEN 5 ELSE 0)
    + (IF 32 <= Min(w, h) /\ Min(w, h) <= 200 /\ Squarish(w, h) THEN 3 ELSE 0)

\* if logo_score > 5
LOGO_MIN_SCORE == 5

\* Mutant: candidates are ranked by score alone.
BetterByScore(a, b) == a.score > b.score

\* a sorts before b under key=(score, -abs(w - h)), reverse=True.
Better(a, b) ==
  \/ a.score > b.score
  \/ a.score = b.score /\ AbsDiff(a.w, a.h) < AbsDiff(b.w, b.h)

\* logo_candidates.sort(key=(score, -abs(w - h)), reverse=True)[0]: the sort is
\* stable, so the first of the candidates with the greatest key.
BestLogo(cands) ==
  cands[CHOOSE k \in 1..Len(cands) :
          /\ \A j \in 1..Len(cands) : ~Better(cands[j], cands[k])
          /\ \A j \in 1..(k - 1) : Better(cands[k], cands[j])]

\* An image that is skipped before it is scored.
SkippedSrc(src) == src = "" \/ StartsWith(src, "data:image/")

\* logo_candidates after the loop over the images of the tool's website.  Without
\* a name tool_data['name'] raises KeyError, which skips the image.
WebsiteCandidates(images, tool_website, d) ==
  LET scored == [k \in 1..Len(images) |->
        LET src == AbsoluteOnWebsite(images[k].src, tool_website)
        IN [url |-> src, w |-> images[k].w, h |-> images[k].h,
            score |-> IF SkippedSrc(images[k].src) \/ "name" \notin d.keys THEN 0
                      ELSE WebsiteLogoScore(src, images[k].alt, images[k].w,
                                            images[k].h, d.name)]]
  IN SelectSeq(scored, LAMBDA c : c.score > LOGO_MIN_SCORE)

\* logo_candidates after the loop over the images of the toolify page.
ToolifyCandidates(images, d) ==
  LET scored == [k \in 1..Len(images) |->
        LET src == AbsoluteOnToolify(images[k].src)
        IN [url |-> src, w |-> images[k].w, h |-> images[k].h,
            score |-> IF \/ SkippedSrc(images[k].src)
                         \/ Max(images[k].w, images[k].h) < 32
                         \/ "name" \notin d.keys
                        THEN 0
                      ELSE ToolifyLogoScore(src, images[k].alt, images[k].w,
                                            images[k].h, d.name)]]
  IN SelectSeq(scored, LAMBDA c : c.score > LOGO_MIN_SCORE)

\* tool_data['logo_url'] = best_logo['url'], if there is a candidate.
WithBestLogo(d, cands) ==
  IF cands = <<>> THEN d ELSE SetItem(d, "logo_url", BestLogo(cands).url)

RECURSIVE Dedup(_)
\* list(set(social_links)) (the order of a set is arbitrary; the pages here hold
\* at most one distinct link).
Dedup(s) ==
  IF s = <<>> THEN <<>>
  ELSE <<Head(s)>> \o Dedup(SelectSeq(Tail(s), LAMBDA x : x # Head(s)))

\* if href and not 'intent/tweet' in href
SocialLinks(hrefs) ==
  Dedup(SelectSeq(hrefs, LAMBDA href : href # "" /\ ~In("intent/tweet", href)))

\* The positional parameters of categorize_tool(name, description).
CATEGORIZE_PARAMS == 2

\* A call of categorize_tool with the positional arguments args.
CallCategorize(args) ==
  IF Len(args) # CATEGORIZE_PARAMS THEN Raised("TypeError")
  ELSE categorize_tool(args[1], args[2])

\* The arguments of the call in extract_tool_details.
CategorizeArgs(d) == <<PyStr(d.full_description)>>

\* page.goto and wait_for_selector returned; tool_data = {}
ExtractNavigate ==
  /\ e_pc = "nav"
  /\ tool_data' = EmptyDict
  /\ e_pc' = "name"
  /\ UNCHANGED <<page, details, e_tools, e_processed, logo_candidates, logo_phases>>

\* name_el = await page.query_selector('h1') and the block under `if name_el`.
ExtractName ==
  /\ e_pc = "name"
  /\ IF page.h1.present
       THEN \E shots \in ScreenshotOutcomes :
              tool_data' = WithName(tool_data, page.h1.text, shots)
     ELSE tool_data' = tool_data
  /\ e_pc' = "desc"
  /\ UNCHANGED <<page, details, e_tools, e_processed, logo_candidates, logo_phases>>

\* Meta description and '.tool-detail-information' text.
ExtractDescription ==
  /\ e_pc = "desc"
  /\ LET d1 == IF page.meta.present
                 THEN SetItem(tool_data, "meta_description", page.meta.content)
               ELSE tool_data
     IN tool_data' = IF page.description.present
                       THEN SetItem(d1, "full_description",
                                    FullDescription(page.description.text))
                     ELSE d1
  /\ e_pc' = "links"
  /\ UNCHANGED <<page, details, e_tools, e_processed, logo_candidates, logo_phases>>

\* Features, social links and pricing link.
ExtractLinks ==
  /\ e_pc = "links"
  /\ LET d1 == SetItem(tool_data, "features",
                       SelectSeq([k \in 1..Len(page.features) |->
                                    strip(page.features[k])],
                                 LAMBDA t : t # ""))
         d2 == SetItem(d1, "social_links", SocialLinks(page.social_hrefs))
     IN tool_data' = IF page.pricing.present
                       THEN SetItem(d2, "pricing_link", page.pricing.href)
                     ELSE d2
  /\ e_pc' = "website"
  /\ UNCHANGED <<page, details, e_tools, e_processed, logo_candidates, logo_phases>>

\* No logo search has run yet.
NoCandidates == [website |-> <<>>, toolify |-> <<>>]

\* The logo search on the tool's own website, when the page links to one.
ExtractLogoWebsite ==
  /\ e_pc = "website"
  /\ IF page.website = ""
       THEN UNCHANGED <<tool_data, logo_candidates, logo_phases>>
     ELSE LET cands == WebsiteCandidates(page.website_images, page.website,
                                         tool_data)
          IN /\ logo_candidates' = [logo_candidates EXCEPT !.website = cands]
             /\ logo_phases' = Append(logo_phases, "website")
             /\ tool_data' = WithBestLogo(tool_data, cands)
  /\ e_pc' = "fallback"
  /\ UNCHANGED <<page, details, e_tools, e_processed>>

\* The tool's website cannot be opened: both inner handlers only log.
ExtractLogoWebsiteFails ==
  /\ e_pc = "website"
  /\ page.website # ""
  /\ logo_phases' = Append(logo_phases, "website")
  /\ e_pc' = "fallback"
  /\ UNCHANGED <<page, tool_data, details, e_tools, e_processed, logo_candidates>>

\* Mutant: the toolify page is searched whatever the website search found.
LogoMissingAlways(d) == TRUE

\* not tool_data.get('logo_url')
LogoMissing(d) == ~Truthy(d, "logo_url")

\* if not tool_data.get('logo_url'): the logo search on the toolify page.
ExtractLogoFallback ==
  /\ e_pc = "fallback"
  /\ IF LogoMissing(tool_data)
       THEN LET cands == ToolifyCandidates(page.content_images, tool_data)
            IN /\ logo_candidates' = [logo_candidates EXCEPT !.toolify = cands]
               /\ logo_phases' = Append(logo_phases, "toolify")
               /\ tool_data' = WithBestLogo(tool_data, cands)
     ELSE UNCHANGED <<tool_data, logo_candidates, logo_phases>>
  /\ e_pc' = "categorize"
  /\ UNCHANGED <<page, details, e_tools, e_processed>>

\* if tool_data.get('full_description'): tool_data['category'] = categorize_tool(...)
\* then return tool_data; an exception of the call reaches the handler of the
\* function, which returns {}.
ExtractCategorize ==
  /\ e_pc = "categorize"
  /\ IF Truthy(tool_data, "full_description")
       THEN LET r == CallCategorize(CategorizeArgs(tool_data))
            IN IF r.kind = "raised"
                 THEN tool_data' = tool_data /\ details' = EmptyDict
               ELSE /\ tool_data' = SetItem(tool_data, "category", r.value)
                    /\ details' = SetItem(tool_data, "category", r.value)
     ELSE tool_data' = tool_data /\ details' = tool_data
  /\ e_pc' = "returned"
  /\ UNCHANGED <<page, e_tools, e_processed, logo_candidates, logo_phases>>

\* An await on the page raises (retries exhausted, page closed):
\* except Exception: return {}
ExtractRaises ==
  /\ e_pc \in {"nav", "name", "desc", "links"}
  /\ details' = EmptyDict
  /\ e_pc' = "returned"
  /\ UNCHANGED <<page, tool_data, e_tools, e_processed, logo_candidates, logo_phases>>

\* scrape_tools: if details: tools.append(details); processed_urls.add(tool_url)
ScrapeIfDetails ==
  /\ e_pc = "returned"
  /\ IF details.keys # {}
       THEN /\ e_tools' = Append(e_tools, details)
            /\ e_processed' = e_processed \cup {page.url}
     ELSE UNCHANGED <<e_tools, e_processed>>
  /\ e_pc' = "done"
  /\ UNCHANGED <<page, tool_data, details, logo_candidates, logo_phases>>

\* The pages extract_tool_details is run on.
NoElement == [present |-> FALSE, text |-> ""]
Element(t) == [present |-> TRUE, text |-> t]
H1s == {NoElement, Element(" AdPilot\n"), Element("  ")}
DescriptionElements == {Element(""), Element("Plan your next\nAd-Campaign!")}
SocialHrefs ==
  {<<>>, <<"https://twitter.com/adpilot", "https://twitter.com/adpilot">>,
   <<"//twitter.com/adpilot">>, <<"https://twitter.com/intent/tweet?text=hi">>}
PricingHrefs ==
  {"https://adpilot.io/pricing", "//adpilot.io/pricing", "/pricing", "./pricing",
   "pricing.html"}
Image(src) == [src |-> src, alt |-> "AdPilot logo", w |-> 64, h |-> 64]
WebsiteSrcs ==
  {"https://adpilot.io/static/logo.png", "//cdn.adpilot.io/logo.png",
   "/static/logo.png", "static/logo.png"}
ToolifySrcs ==
  {"https://cdn-images.toolify.ai/adpilot/logo.png",
   "//cdn-images.toolify.ai/adpilot/logo.png", "/img/logo.png", "./img/logo.png",
   "img/logo.png", "data:image/png;base64,AAAA"}

InitExtract ==
  /\ ScrapeIdle /\ RetryIdle /\ ClassIdle /\ FallbackIdle /\ PartsIdle
  /\ ToolsIdle
  /\ e_pc = "nav"
  /\ \E h1 \in H1s, desc \in DescriptionElements, social \in SocialHrefs :
     \E pricing \in {[present |-> FALSE, href |-> ""]}
                      \cup {[present |-> TRUE, href |-> p] : p \in PricingHrefs} :
     \E site_imgs \in {[website |-> "", images |-> <<>>]}
                        \cup {[website |-> "https://adpilot.io/home",
                               images |-> imgs] :
                                imgs \in {<<>>} \cup {<<Image(s)>> : s \in WebsiteSrcs}} :
     \E content \in {<<>>} \cup {<<Image(s)>> : s \in ToolifySrcs} :
       page = [url |-> "https://www.toolify.ai/tool/adpilot",
               h1 |-> h1,
               meta |-> [present |-> TRUE, content |-> "AdPilot"],
               description |-> desc,
               features |-> <<"Fast", " ">>,
               social_hrefs |-> social,
               pricing |-> pricing,
               website |-> site_imgs.website,
               website_images |-> site_imgs.images,
               content_images |-> content]
  /\ tool_data = EmptyDict
  /\ details = EmptyDict
  /\ e_tools = <<>>
  /\ e_processed = {}
  /\ logo_candidates = NoCandidates
  /\ logo_phases = <<>>

NextExtract ==
  \/ (ExtractNavigate /\ UNCHANGED notExtractVars)
  \/ (ExtractName /\ UNCHANGED notExtractVars)
  \/ (ExtractDescription /\ UNCHANGED notExtractVars)
  \/ (ExtractLinks /\ UNCHANGED notExtractVars)
  \/ (ExtractLogoWebsite /\ UNCHANGED notExtractVars)
  \/ (ExtractLogoWebsiteFails /\ UNCHANGED notExtractVars)
  \/ (ExtractLogoFallback /\ UNCHANGED notExtractVars)
  \/ (ExtractCategorize /\ UNCHANGED notExtractVars)
  \/ (ExtractRaises /\ UNCHANGED notExtractVars)
  \/ (ScrapeIfDetails /\ UNCHANGED notExtractVars)

SpecExtract == InitExtract /\ [][NextExtract]_vars

\* ------------------------------------------- the logo searches on their own
\* Number of images on the tool's website and in the content area together.
MaxImages == 2

\* The images the two searches meet: src, alt and the rendered dimensions.
LogoImages ==
  {[src |-> "/static/logo.png", alt |-> "", w |-> 64, h |-> 64],
   [src |-> "https://getpilot.io/favicon.ico", alt |-> "", w |-> 16, h |-> 16],
   [src |-> "https://cdn-images.toolify.ai/a.png", alt |-> "AdPilot",
    w |-> 120, h |-> 100],
   [src |-> "data:image/png;base64,AAAA", alt |-> "AdPilot logo",
    w |-> 64, h |-> 64],
   [src |-> "https://getpilot.io/hero.png", alt |-> "Adpilot app",
    w |-> 300, h |-> 100],
   [src |-> "//cdn.getpilot.io/brand.png", alt |-> "", w |-> 64, h |-> 60],
   [src |-> "./img/banner.jpg", alt |-> "", w |-> 640, h |-> 100]}

\* The lists of at most n images.
ImageLists(n) == UNION {[1..k -> LogoImages] : k \in 0..n}

\* tool_data as the steps before the logo searches leave it, with the name
\* of the tool or (no h1 on the page) without it.
ToolDataBeforeLogo(named) ==
  LET d == IF named THEN WithName(EmptyDict, "AdPilot", {}) ELSE EmptyDict
  IN SetItem(SetItem(d, "features", <<>>), "social_links", <<>>)

InitLogo ==
  /\ ScrapeIdle /\ RetryIdle /\ ClassIdle /\ FallbackIdle /\ PartsIdle
  /\ ToolsIdle
  /\ e_pc = "website"
  /\ \E website \in {"", "https://getpilot.io/home"} :
     \E site_imgs \in ImageLists(IF website = "" THEN 0 ELSE MaxImages) :
     \E content \in ImageLists(MaxImages - Len(site_imgs)) :
       page = [url |-> "https://www.toolify.ai/tool/adpilot",
               h1 |-> NoElement,
               meta |-> [present |-> FALSE, content |-> ""],
               description |-> NoElement,
               features |-> <<>>,
               social_hrefs |-> <<>>,
               pricing |-> [present |-> FALSE, href |-> ""],
               website |-> website,
               website_images |-> site_imgs,
               content_images |-> content]
  /\ \E named \in BOOLEAN : tool_data = ToolDataBeforeLogo(named)
  /\ details = EmptyDict
  /\ e_tools = <<>>
  /\ e_processed = {}
  /\ logo_candidates = NoCandidates
  /\ logo_phases = <<>>

NextLogo ==
  \/ (ExtractLogoWebsite /\ UNCHANGED notExtractVars)
  \/ (ExtractLogoWebsiteFails /\ UNCHANGED notExtractVars)
  \/ (ExtractLogoFallback /\ UNCHANGED notExtractVars)

SpecLogo == InitLogo /\ [][NextLogo]_vars

\* ----------------------------------------------------- extract_with_fallback
NOT_AVAILABLE == "N/A"

RECURSIVE Join(_, _)
\* sep.join(items)
Join(items, sep) ==
  IF items = <<>> THEN ""
  ELSE IF Len(items) = 1 THEN items[1]
  ELSE items[1] \o sep \o Join(Tail(items), sep)

\* x or 'N/A'
OrNotAvailable(text) == IF text = "" THEN NOT_AVAILABLE ELSE text

\* content = html_element.select_one(css_selector) finds an element:
\* return content.get_text(strip=True) or 'N/A'
FallbackCssFound ==
  /\ f_pc = "css"
  /\ html_element.css.outcome = "found"
  /\ f_result' = Returned(PyStr(OrNotAvailable(strip(html_element.css.text))))
  /\ f_pc' = "done"
  /\ UNCHANGED <<html_element, xpath_selector>>

\* select_one returns None: on to the XPath branch.
FallbackCssMissing ==
  /\ f_pc = "css"
  /\ html_element.css.outcome = "none"
  /\ f_pc' = "xpath"
  /\ UNCHANGED <<html_element, xpath_selector, f_result>>

\* if xpath_selector: content = html_element.xpath(xpath_selector);
\* if content: return ' '.join(content).strip() or 'N/A'; then return 'N/A'
FallbackXpath ==
  /\ f_pc = "xpath"
  /\ xpath_selector.type = "str" /\ xpath_selector.s # ""
       => html_element.xpath.outcome = "list"
  /\ f_result' =
       IF /\ xpath_selector.type = "str" /\ xpath_selector.s # ""
          /\ html_element.xpath.items # <<>>
         THEN Returned(PyStr(OrNotAvailable(
                strip(Join(html_element.xpath.items, " ")))))
       ELSE Returned(PyStr(NOT_AVAILABLE))
  /\ f_pc' = "done"
  /\ UNCHANGED <<html_element, xpath_selector>>

\* select_one or xpath raises: except Exception: return 'N/A'
FallbackRaises ==
  /\ \/ f_pc = "css" /\ html_element.css.outcome = "raises"
     \/ /\ f_pc = "xpath"
        /\ xpath_selector.type = "str" /\ xpath_selector.s # ""
        /\ html_element.xpath.outcome = "raises"
  /\ f_result' = Returned(PyStr(NOT_AVAILABLE))
  /\ f_pc' = "done"
  /\ UNCHANGED <<html_element, xpath_selector>>

\* What the two queries do on the elements extract_with_fallback is given.
CssOutcomes ==
  {[outcome |-> "raises", text |-> ""], [outcome |-> "none", text |-> ""]}
    \cup {[outcome |-> "found", text |-> t] : t \in {"", " \n", " Acme ", "N/A"}}
XpathOutcomes ==
  {[outcome |-> "raises", items |-> <<>>]}
    \cup {[outcome |-> "list", items |-> l] :
            l \in {<<>>, <<"">>, <<" ">>, <<"Acme">>, <<"Acme ", "Inc">>}}
XpathSelectors == {PyNone, PyStr(""), PyStr("//h1/text()")}

InitFallback ==
  /\ ScrapeIdle /\ RetryIdle /\ ClassIdle /\ ExtractIdle /\ PartsIdle
  /\ ToolsIdle
  /\ f_pc = "css"
  /\ \E c \in CssOutcomes, x \in XpathOutcomes :
       html_element = [css |-> c, xpath |-> x]
  /\ xpath_selector \in XpathSelectors
  /\ f_result = NoResult

NextFallback ==
  \/ (FallbackCssFound /\ UNCHANGED notFallbackVars)
  \/ (FallbackCssMissing /\ UNCHANGED notFallbackVars)
  \/ (FallbackXpath /\ UNCHANGED notFallbackVars)
  \/ (FallbackRaises /\ UNCHANGED notFallbackVars)

SpecFallback == InitFallback /\ [][NextFallback]_vars

\* ------------------------------------------------- extract_description_parts
\* text[k:] for a 1-based k.
From(s, k) == SubSeq(s, k, Len(s))

\* The pattern matches at position k of s.
At(s, k, pat) == k + Len(pat) - 1 <= Len(s) /\ SubSeq(s, k, k + Len(pat) - 1) = pat

\* The pattern (lower case) matches at position k of s under re.IGNORECASE.
AtLower(s, k, pat) ==
  k + Len(pat) - 1 <= Len(s) /\ lower(SubSeq(s, k, k + Len(pat) - 1)) = pat

\* The first position from `from` on where pred holds, Len(s) + 1 if there is none.
First(s, from, pred(_)) ==
  IF \E k \in from..Len(s) : pred(k)
    THEN CHOOSE k \in from..Len(s) : pred(k) /\ \A j \in from..(k - 1) : ~pred(j)
  ELSE Len(s) + 1

\* The first position where the literal (lower case) occurs in s, matched as
\* re.IGNORECASE does; Len(s) + 1 if it does not occur.
Find(s, literal) ==
  First(s, 1, LAMBDA k : AtLower(s, k, literal))

\* `$` without re.MULTILINE: the end of the text, or just before a final newline.
AtEnd(s, k) == k = Len(s) + 1 \/ (k = Len(s) /\ SubSeq(s, k, k) = "\n")

\* (.*?)(?=stop1|stop2|...|$) started at position from: the captured text.
LazyUntil(s, from, stops) ==
  LET stop(k) == AtEnd(s, k) \/ \E j \in 1..Len(stops) : AtLower(s, k, stops[j])
      q == IF \E k \in from..Len(s) : stop(k)
             THEN CHOOSE k \in from..Len(s) :
                    stop(k) /\ \A j \in from..(k - 1) : ~stop(j)
           ELSE Len(s) + 1
  IN SubSeq(s, from, q - 1)

IsDigit(c) == HasChar(DIGITS, c)

RECURSIVE SpaceRun(_)
\* The length of the run of whitespace at the head of s.
SpaceRun(s) == IF s # "" /\ IsSpace(Head(s)) THEN 1 + SpaceRun(Tail(s)) ELSE 0

RECURSIVE DigitRun(_)
\* The length of the run of digits at the head of s.
DigitRun(s) == IF s # "" /\ IsDigit(Head(s)) THEN 1 + DigitRun(Tail(s)) ELSE 0

\* A match object: whether the pattern matched, and group(1).
NoMatch == [matched |-> FALSE, group |-> ""]
Match(g) == [matched |-> TRUE, group |-> g]

\* re.search(r'<anchor> .+?\s+(.*?)(?=<stop>|$)', description, DOTALL | IGNORECASE)
\* with the anchor given in lower case and with its trailing space: the anchor,
\* at least one character, a run of whitespace, then the lazy group.
SearchQuestion(s, anchor, stops) ==
  LET p == Find(s, anchor)
      b == First(s, p + Len(anchor) + 1, LAMBDA k : IsSpace(SubSeq(s, k, k)))
      e == b + SpaceRun(From(s, b))
  IN IF p > Len(s) \/ b > Len(s) THEN NoMatch
     ELSE Match(LazyUntil(s, e, stops))

\* re.search(r'<anchor>\s*(.*?)(?=<stop>|...|$)', description, DOTALL | IGNORECASE)
SearchSection(s, anchor, stops) ==
  LET p == Find(s, anchor)
      e == p + Len(anchor) + SpaceRun(From(s, p + Len(anchor)))
  IN IF p > Len(s) THEN NoMatch ELSE Match(LazyUntil(s, e, stops))

\* ------------------------------------------------- data_utils.clean_text
RECURSIVE KeepPlain(_)
\* re.sub(r'[^\w\s.,!?()-]', '', text)
KeepPlain(s) ==
  IF s = "" THEN ""
  ELSE IF Len(s) = 1
    THEN (IF \/ HasChar(ASCII_LOWER, s) \/ HasChar(ASCII_UPPER, s)
             \/ HasChar(DIGITS, s) \/ IsSpace(s)
             \/ HasChar("_.,!?()-", s)
            THEN s ELSE "")
  ELSE KeepPlain(SubSeq(s, 1, Len(s) \div 2))
         \o KeepPlain(SubSeq(s, Len(s) \div 2 + 1, Len(s)))

\* clean_text(text) of data_utils, for a str.
clean_plain_text(text) ==
  IF text = "" THEN "" ELSE strip(KeepPlain(CollapseSpaces(text)))

\* The length of the delimiter re.split finds at the head of s, 0 if none:
\* r'\s{2,}|\d+\.' for the features, r'#\d+|\s{2,}' for the use cases.
FeatureDelimiter(s) ==
  IF SpaceRun(s) >= 2 THEN SpaceRun(s)
  ELSE IF DigitRun(s) >= 1 /\ At(s, DigitRun(s) + 1, ".")
    THEN DigitRun(s) + 1
  ELSE 0

UseCaseDelimiter(s) ==
  IF At(s, 1, "#") /\ DigitRun(Tail(s)) >= 1 THEN 1 + DigitRun(Tail(s))
  ELSE IF SpaceRun(s) >= 2 THEN SpaceRun(s)
  ELSE 0

RECURSIVE SplitFeatures(_)
\* re.split(r'\s{2,}|\d+\.', features_text)
SplitFeatures(s) ==
  LET d == First(s, 1, LAMBDA k : FeatureDelimiter(From(s, k)) > 0)
  IN IF d > Len(s) THEN <<s>>
     ELSE <<SubSeq(s, 1, d - 1)>>
            \o SplitFeatures(From(s, d + FeatureDelimiter(From(s, d))))

RECURSIVE SplitUseCases(_)
\* re.split(r'#\d+|\s{2,}', use_cases_text)
SplitUseCases(s) ==
  LET d == First(s, 1, LAMBDA k : UseCaseDelimiter(From(s, k)) > 0)
  IN IF d > Len(s) THEN <<s>>
     ELSE <<SubSeq(s, 1, d - 1)>>
            \o SplitUseCases(From(s, d + UseCaseDelimiter(From(s, d))))

\* [clean_text(x) for x in pieces if clean_text(x)]
CleanPieces(pieces) ==
  SelectSeq([k \in 1..Len(pieces) |-> clean_plain_text(pieces[k])],
            LAMBDA t : t # "")

RECURSIVE TokenRun(_)
\* The length of the run of [^"\s] characters at the head of s.
TokenRun(s) ==
  IF s # "" /\ ~IsSpace(Head(s)) /\ Head(s) # "\""
    THEN 1 + TokenRun(Tail(s)) ELSE 0

RECURSIVE UnclosedRun(_)
\* The length of the run of [^)] characters at the head of s.
UnclosedRun(s) == IF s # "" /\ Head(s) # ")" THEN 1 + UnclosedRun(Tail(s)) ELSE 0

\* The length of the text https?:// matches at position k of s, 0 if it does not.
SchemeAt(s, k) ==
  IF AtLower(s, k, "https://") THEN Len("https://")
  ELSE IF AtLower(s, k, "http://") THEN Len("http://")
  ELSE 0

\* A social pattern  <prefix>(?:<optional>)?([^"\s]+)  tried at position k: the
\* position where group(1) starts, 0 if the pattern does not match at k.
SocialGroupAt(s, k, prefixes, optional) ==
  LET hits == {j \in 1..Len(prefixes) : AtLower(s, k, prefixes[j])}
      after == k + Len(prefixes[CHOOSE j \in hits : TRUE])
  IN IF hits = {} THEN 0
     ELSE IF /\ optional # ""
             /\ AtLower(s, after, optional)
             /\ TokenRun(From(s, after + Len(optional))) >= 1
       THEN after + Len(optional)
     ELSE IF TokenRun(From(s, after)) >= 1 THEN after
     ELSE 0

\* re.search of a social pattern.
SearchSocial(s, prefixes, optional) ==
  LET k == First(s, 1, LAMBDA p : SocialGroupAt(s, p, prefixes, optional) > 0)
      g == SocialGroupAt(s, k, prefixes, optional)
  IN IF k > Len(s) THEN NoMatch
     ELSE Match(SubSeq(s, g, g + TokenRun(From(s, g)) - 1))

\* <anchor>\s*(https?://[^"\s]+) tried at position k: where group(1) starts.
LinkGroupAt(s, k, anchor) ==
  LET g == k + Len(anchor) + SpaceRun(From(s, k + Len(anchor)))
  IN IF /\ AtLower(s, k, anchor)
        /\ SchemeAt(s, g) > 0
        /\ TokenRun(From(s, g + SchemeAt(s, g))) >= 1
       THEN g ELSE 0

\* re.search(r'<anchor>\s*(https?://[^"\s]+)', description, re.IGNORECASE)
SearchLink(s, anchor) ==
  LET k == First(s, 1, LAMBDA p : LinkGroupAt(s, p, anchor) > 0)
      g == LinkGroupAt(s, k, anchor)
  IN IF k > Len(s) THEN NoMatch
     ELSE Match(SubSeq(s, g, g + SchemeAt(s, g)
                               + TokenRun(From(s, g + SchemeAt(s, g))) - 1))

\* contact us page\s*\((https?://[^)]+)\) tried at position k.
ContactGroupAt(s, k) ==
  LET anchor == "contact us page"
      o == k + Len(anchor) + SpaceRun(From(s, k + Len(anchor)))
      g == o + 1
      n == UnclosedRun(From(s, g + SchemeAt(s, g)))
  IN IF /\ AtLower(s, k, anchor)
        /\ At(s, o, "(")
        /\ SchemeAt(s, g) > 0
        /\ n >= 1
        /\ At(s, g + SchemeAt(s, g) + n, ")")
       THEN g ELSE 0

\* re.search(r'contact us page\s*\((https?://[^)]+)\)', description, re.IGNORECASE)
SearchContact(s) ==
  LET k == First(s, 1, LAMBDA p : ContactGroupAt(s, p) > 0)
      g == ContactGroupAt(s, k)
  IN IF k > Len(s) THEN NoMatch
     ELSE Match(SubSeq(s, g, g + SchemeAt(s, g)
                               + UnclosedRun(From(s, g + SchemeAt(s, g))) - 1))

\* The url stored for a social match: the captured path, put after the domain
\* unless it begins with a scheme.
SocialUrl(domain, group) ==
  IF StartsWith(group, "http://") \/ StartsWith(group, "https://") THEN group
  ELSE "https://" \o domain \o "/" \o group

\* parts as initialised at the top of extract_description_parts.
EmptyParts ==
  [short_description |-> "", how_to_use |-> "", features |-> <<>>,
   use_cases |-> <<>>, discord_link |-> "", facebook_link |-> "",
   twitter_link |-> "", linkedin_link |-> "", youtube_link |-> "",
   instagram_link |-> "", login_link |-> "", signup_link |-> "",
   contact_link |-> ""]

\* parts["short_description"]
ShortDescriptionOf(s) ==
  LET m == SearchQuestion(s, "what is ", <<"how to use">>)
  IN IF m.matched THEN clean_plain_text(m.group) ELSE ""

\* parts["how_to_use"]
HowToUseOf(s) ==
  LET m == SearchQuestion(s, "how to use ", <<"core features">>)
  IN IF m.matched THEN clean_plain_text(m.group) ELSE ""

\* parts["features"]
FeaturesOf(s) ==
  LET m == SearchSection(s, "core features",
                         <<"use cases", "faq", "support email">>)
  IN IF m.matched THEN CleanPieces(SplitFeatures(m.group)) ELSE <<>>

\* Mutant: the section is read from the start of the text when its anchor is
\* not found.
UseCasesOfUnanchored(s) ==
  LET m == SearchSection(s, "use cases", <<"faq", "support email">>)
  IN CleanPieces(SplitUseCases(
       IF m.matched THEN m.group
       ELSE LazyUntil(s, 1, <<"faq", "support email">>)))

\* parts["use_cases"]
UseCasesOf(s) ==
  LET m == SearchSection(s, "use cases", <<"faq", "support email">>)
  IN IF m.matched THEN CleanPieces(SplitUseCases(m.group)) ELSE <<>>

\* The value the links loop stores for one social link type ("" when the
\* pattern does not match and the key keeps its initial value).
SocialLinkOf(s, prefixes, optional, domain) ==
  LET m == SearchSocial(s, prefixes, optional)
  IN IF m.matched THEN SocialUrl(domain, m.group) ELSE ""

\* The value the links loop stores for the login or signup link.
PageLinkOf(s, anchor) ==
  LET m == SearchLink(s, anchor) IN IF m.matched THEN m.group ELSE ""

\* The value the links loop stores for the contact link.
ContactLinkOf(s) ==
  LET m == SearchContact(s) IN IF m.matched THEN m.group ELSE ""

\* if not description: return parts
PartsReturnsEmpty ==
  /\ p_pc = "start"
  /\ p_description.type \in {"NoneType", "str"} /\ p_description.s = ""
  /\ p_result' = Returned("parts")
  /\ p_pc' = "done"
  /\ UNCHANGED <<p_description, parts>>

\* The first re.search on a value that is neither empty nor a str raises TypeError.
PartsRaises ==
  /\ p_pc = "start"
  /\ p_description.type \notin {"NoneType", "str"}
  /\ p_result' = Raised("TypeError")
  /\ p_pc' = "done"
  /\ UNCHANGED <<p_description, parts>>

\* Short description: between "What is X" and "How to use".
PartsShortDescription ==
  /\ p_pc = "start"
  /\ p_description.type = "str" /\ p_description.s # ""
  /\ parts' = [parts EXCEPT
                 !.short_description = ShortDescriptionOf(p_description.s)]
  /\ p_pc' = "how_to_use"
  /\ UNCHANGED <<p_description, p_result>>

\* How to use: between "How to use X" and "Core Features".
PartsHowToUse ==
  /\ p_pc = "how_to_use"
  /\ parts' = [parts EXCEPT !.how_to_use = HowToUseOf(p_description.s)]
  /\ p_pc' = "features"
  /\ UNCHANGED <<p_description, p_result>>

\* Features: between "Core Features" and "Use Cases", "FAQ" or "Support Email".
PartsFeatures ==
  /\ p_pc = "features"
  /\ parts' = [parts EXCEPT !.features = FeaturesOf(p_description.s)]
  /\ p_pc' = "use_cases"
  /\ UNCHANGED <<p_description, p_result>>

\* Use cases: between "Use Cases" and "FAQ" or "Support Email".
PartsUseCases ==
  /\ p_pc = "use_cases"
  /\ parts' = [parts EXCEPT !.use_cases = UseCasesOf(p_description.s)]
  /\ p_pc' = "links"
  /\ UNCHANGED <<p_description, p_result>>

\* for link_type, pattern in links.items(): ...; return parts
PartsLinks ==
  /\ p_pc = "links"
  /\ LET s == p_description.s
     IN parts' = [parts EXCEPT
          !.discord_link =
             SocialLinkOf(s, <<"discord.gg/", "discordapp.com/">>, "", "discord.gg"),
          !.facebook_link = SocialLinkOf(s, <<"facebook.com/">>, "", "facebook.com"),
          !.twitter_link = SocialLinkOf(s, <<"twitter.com/">>, "", "twitter.com"),
          !.linkedin_link =
             SocialLinkOf(s, <<"linkedin.com/">>, "company/", "linkedin.com"),
          !.youtube_link = SocialLinkOf(s, <<"youtube.com/">>, "@", "youtube.com"),
          !.instagram_link =
             SocialLinkOf(s, <<"instagram.com/">>, "", "instagram.com"),
          !.login_link = PageLinkOf(s, "login link:"),
          !.signup_link = PageLinkOf(s, "sign up link:"),
          !.contact_link = ContactLinkOf(s)]
  /\ p_result' = Returned("parts")
  /\ p_pc' = "done"
  /\ UNCHANGED p_description

\* The sections a description is made of on the tool pages.
Sections ==
  <<"What is Ad? It plans ads. ",
    "How to use Ad? Sign up. ",
    "Core Features  Fast  2. Cheap ",
    "Use Cases #1 Shops #2 Blogs ",
    "FAQ Free? ",
    "Login Link: https://ad.io/in twitter.com/ad">>

RECURSIVE Concat(_, _)
\* The sections numbered in S, from section k on, in page order.
Concat(S, k) ==
  IF k > Len(Sections) THEN ""
  ELSE (IF k \in S THEN Sections[k] ELSE "") \o Concat(S, k + 1)

\* The descriptions extract_description_parts is called with: every choice of
\* sections, an absent description and a number.
DescriptionValues ==
  {PyStr(Concat(S, 1)) : S \in SUBSET (1..Len(Sections))} \cup {PyNone, PyInt}

InitParts ==
  /\ ScrapeIdle /\ RetryIdle /\ ClassIdle /\ ExtractIdle /\ FallbackIdle
  /\ ToolsIdle
  /\ p_pc = "start"
  /\ p_description \in DescriptionValues
  /\ parts = EmptyParts
  /\ p_result = NoResult

NextParts ==
  \/ (PartsReturnsEmpty /\ UNCHANGED notPartsVars)
  \/ (PartsRaises /\ UNCHANGED notPartsVars)
  \/ (PartsShortDescription /\ UNCHANGED notPartsVars)
  \/ (PartsHowToUse /\ UNCHANGED notPartsVars)
  \/ (PartsFeatures /\ UNCHANGED notPartsVars)
  \/ (PartsUseCases /\ UNCHANGED notPartsVars)
  \/ (PartsLinks /\ UNCHANGED notPartsVars)

SpecParts == InitParts /\ [][NextParts]_vars

\* ----------------------------------------------------------------- clean_url
\* The default image clean_url skips.
DEFAULT_LOGO == "logo.f3a91ce.png"
\* What clean_url puts before a relative URL.
TOOLIFY == "https://www.toolify.ai"

\* Mutant: a URL with a slash anywhere in it counts as relative.
IsRelativeAnywhere(s) == In("/", s)

\* url.startswith('/')
IsRelative(s) == StartsWith(s, "/")

\* url.startswith('//')
IsProtocolRelative(s) == StartsWith(s, "//")

\* url.startswith(('http://', 'https://'))
HasHttpScheme(s) == StartsWith(s, "http://") \/ StartsWith(s, "https://")

\* return <value> from the running clean_url call.
CleanUrlReturn(value) ==
  /\ u_results' = Append(u_results, value)
  /\ u_pc' = "done"
  /\ UNCHANGED <<u_arg, u_url, u_call>>

\* if not url: return ""
CleanUrlReturnsEmpty ==
  /\ u_pc = "start"
  /\ u_url.s = ""
  /\ CleanUrlReturn("")

\* url = url.strip()
CleanUrlStrip ==
  /\ u_pc = "start"
  /\ u_url.s # ""
  /\ u_url' = PyStr(strip(u_url.s))
  /\ u_pc' = "default"
  /\ UNCHANGED <<u_arg, u_call, u_results>>

\* if 'logo.f3a91ce.png' in url: return ""
CleanUrlSkipsDefault ==
  /\ u_pc = "default"
  /\ In(DEFAULT_LOGO, u_url.s)
  /\ CleanUrlReturn("")

\* if url.startswith('/'): url = f"https://www.toolify.ai{url}"
CleanUrlRelative ==
  /\ u_pc = "default"
  /\ ~In(DEFAULT_LOGO, u_url.s)
  /\ u_url' = IF IsRelative(u_url.s) THEN PyStr(TOOLIFY \o u_url.s) ELSE u_url
  /\ u_pc' = "protocol"
  /\ UNCHANGED <<u_arg, u_call, u_results>>

\* if url.startswith('//'): url = f"https:{url}"
CleanUrlProtocolRelative ==
  /\ u_pc = "protocol"
  /\ u_url' = IF IsProtocolRelative(u_url.s) THEN PyStr("https:" \o u_url.s)
              ELSE u_url
  /\ u_pc' = "validate"
  /\ UNCHANGED <<u_arg, u_call, u_results>>

\* if not url.startswith(('http://', 'https://')): return ""
CleanUrlInvalid ==
  /\ u_pc = "validate"
  /\ ~HasHttpScheme(u_url.s)
  /\ CleanUrlReturn("")

\* return url
CleanUrlValid ==
  /\ u_pc = "validate"
  /\ HasHttpScheme(u_url.s)
  /\ CleanUrlReturn(u_url.s)

\* clean_url(clean_url(u)): the second call is given what the first returned.
CleanUrlAgain ==
  /\ u_pc = "done"
  /\ u_call = 1
  /\ u_call' = 2
  /\ u_url' = PyStr(u_results[1])
  /\ u_pc' = "start"
  /\ UNCHANGED <<u_arg, u_results>>

\* The urls clean_url is called with: optional white space, a scheme, a slash
\* or a double slash, a host and path, optional trailing white space; and None.
UrlArgs ==
  {PyStr(lead \o prefix \o rest \o trail) :
     lead \in {"", " "},
     prefix \in {"", "/", "//", "http://", "https://", "ftp://"},
     rest \in {"", "cdn.io/a.png", "cdn.io/logo.f3a91ce.png"},
     trail \in {"", "\n"}} \cup {PyNone}

InitCleanUrl ==
  /\ ScrapeIdle /\ RetryIdle /\ ClassIdle /\ ExtractIdle /\ FallbackIdle
  /\ PartsIdle /\ CsvIdle /\ PagesIdle /\ LlmIdle
  /\ u_pc = "start"
  /\ u_arg \in UrlArgs
  /\ u_url = u_arg
  /\ u_call = 1
  /\ u_results = <<>>

NextCleanUrl ==
  \/ (CleanUrlReturnsEmpty /\ UNCHANGED notUrlVars)
  \/ (CleanUrlStrip /\ UNCHANGED notUrlVars)
  \/ (CleanUrlSkipsDefault /\ UNCHANGED notUrlVars)
  \/ (CleanUrlRelative /\ UNCHANGED notUrlVars)
  \/ (CleanUrlProtocolRelative /\ UNCHANGED notUrlVars)
  \/ (CleanUrlInvalid /\ UNCHANGED notUrlVars)
  \/ (CleanUrlValid /\ UNCHANGED notUrlVars)
  \/ (CleanUrlAgain /\ UNCHANGED notUrlVars)

SpecCleanUrl == InitCleanUrl /\ [][NextCleanUrl]_vars

\* --------------------------------------------------------------- json_to_csv
\* link and isinstance(link, str) and link.startswith('http')
IsHttpLink(link) == link # "" /\ StartsWith(link, "http")

\* [f"{key}: {value}" for key, value in pairs if value is an http link]
KeyedLinks(pairs) ==
  LET kept == SelectSeq(pairs, LAMBDA p : IsHttpLink(p[2]))
  IN [k \in 1..Len(kept) |-> kept[k][1] \o ": " \o kept[k][2]]

logo_fields == <<"logo_url", "image_url", "logo", "img_url">>

\* item.get(key) is truthy, for a str-valued key.
ItemHas(d, key) == key \in d.keys /\ d[key] # ""

\* The social_links list of the row: 'platform: link' for a dict, the links
\* themselves for a list, http links only.
CsvSocialLinks ==
  /\ v_pc = "social"
  /\ social_links' =
       IF "social_links" \notin item.keys THEN <<>>
       ELSE IF item.social_links.kind = "dict"
         THEN KeyedLinks(item.social_links.items)
       ELSE SelectSeq(item.social_links.items, IsHttpLink)
  /\ v_pc' = "links"
  /\ UNCHANGED <<item, important_links, logo_url, img_url, field, flat_item>>

\* The important_links list of the row, from item['links'].
CsvImportantLinks ==
  /\ v_pc = "links"
  /\ important_links' =
       IF "links" \notin item.keys THEN <<>> ELSE KeyedLinks(item.links)
  /\ logo_url' = PyNone
  /\ img_url' = PyNone
  /\ field' = 1
  /\ v_pc' = "logo"
  /\ UNCHANGED <<item, social_links, flat_item>>

\* for field in logo_fields: the field is missing, empty or not an http url.
CsvLogoFieldSkipped ==
  /\ v_pc = "logo"
  /\ field <= Len(logo_fields)
  /\ ~(ItemHas(item, logo_fields[field])
        /\ StartsWith(item[logo_fields[field]], "http"))
  /\ field' = field + 1
  /\ UNCHANGED <<v_pc, item, social_links, important_links, logo_url, img_url,
                 flat_item>>

\* for field in logo_fields: the field holds an http url; it becomes logo_url, or
\* img_url if logo_url is set, and the loop is left (break).
CsvLogoFieldTaken ==
  /\ v_pc = "logo"
  /\ field <= Len(logo_fields)
  /\ ItemHas(item, logo_fields[field])
  /\ StartsWith(item[logo_fields[field]], "http")
  /\ IF logo_url.s = ""
       THEN logo_url' = PyStr(item[logo_fields[field]]) /\ img_url' = img_url
     ELSE IF img_url.s = ""
       THEN img_url' = PyStr(item[logo_fields[field]]) /\ logo_url' = logo_url
     ELSE UNCHANGED <<logo_url, img_url>>
  /\ v_pc' = "flatten"
  /\ UNCHANGED <<item, social_links, important_links, field, flat_item>>

\* for field in logo_fields: no field is left.
CsvLogoFieldsExhausted ==
  /\ v_pc = "logo"
  /\ field > Len(logo_fields)
  /\ v_pc' = "flatten"
  /\ UNCHANGED <<item, social_links, important_links, logo_url, img_url, field,
                 flat_item>>

\* flat_item = {...}: the row of the CSV file.
CsvFlatten ==
  /\ v_pc = "flatten"
  /\ flat_item' =
       [name |-> IF "name" \in item.keys THEN item.name ELSE "",
        features |-> IF "features" \in item.keys
                       THEN Join(item.features, "|") ELSE "",
        use_cases |-> IF "use_cases" \in item.keys
                        THEN Join(item.use_cases, "|") ELSE "",
        social_links |-> Join(social_links, "|"),
        important_links |-> Join(important_links, "|"),
        logo_url |-> logo_url.s,
        img_url |-> img_url.s]
  /\ v_pc' = "done"
  /\ UNCHANGED <<item, social_links, important_links, logo_url, img_url, field>>

\* The records of the output file: what extract_tool_details leaves in
\* tool_data (features as the page shows them, social links as a list of raw
\* hrefs, logo_url and img_url when found), and records in the formatted layout
\* (use_cases, social_links and links as dicts).
ItemOf(features, use_cases, social, links, logo, img) ==
  [keys |-> {"name", "features", "social_links"}
              \cup (IF use_cases = <<>> THEN {} ELSE {"use_cases"})
              \cup (IF links = <<>> THEN {} ELSE {"links"})
              \cup (IF logo = "" THEN {} ELSE {"logo_url"})
              \cup (IF img = "" THEN {} ELSE {"img_url"}),
   name |-> "AdPilot", features |-> features, use_cases |-> use_cases,
   social_links |-> social, links |-> links, logo_url |-> logo,
   image_url |-> "", logo |-> "", img_url |-> img]

CsvItems ==
  {ItemOf(features, use_cases, social, links, logo, img) :
     features \in {<<>>, <<"Fast">>, <<"Fast", "Cheap">>, <<"Plan | launch">>},
     use_cases \in {<<>>, <<"Shops", "Blogs">>},
     social \in {[kind |-> "list", items |-> <<>>],
                 [kind |-> "list", items |-> <<"https://twitter.com/ad">>],
                 [kind |-> "list",
                  items |-> <<"https://twitter.com/ad", "//facebook.com/ad">>],
                 [kind |-> "dict",
                  items |-> <<<<"twitter", "https://twitter.com/ad">>>>]},
     links \in {<<>>, <<<<"login", "https://ad.io/in">>>>},
     logo \in {"", "https://getpilot.io/logo.png", "static/logo.png"},
     img \in {"", "https://cdn-images.toolify.ai/screenshots/adpilot_content.png"}}

InitCsv ==
  /\ ScrapeIdle /\ RetryIdle /\ ClassIdle /\ ExtractIdle /\ FallbackIdle
  /\ PartsIdle /\ UrlIdle /\ PagesIdle /\ LlmIdle
  /\ v_pc = "social"
  /\ item \in CsvItems
  /\ social_links = <<>>
  /\ important_links = <<>>
  /\ logo_url = PyNone
  /\ img_url = PyNone
  /\ field = 0
  /\ flat_item = "none"

NextCsv ==
  \/ (CsvSocialLinks /\ UNCHANGED notCsvVars)
  \/ (CsvImportantLinks /\ UNCHANGED notCsvVars)
  \/ (CsvLogoFieldSkipped /\ UNCHANGED notCsvVars)
  \/ (CsvLogoFieldTaken /\ UNCHANGED notCsvVars)
  \/ (CsvLogoFieldsExhausted /\ UNCHANGED notCsvVars)
  \/ (CsvFlatten /\ UNCHANGED notCsvVars)

SpecCsv == InitCsv /\ [][NextCsv]_vars

\* ------------------------------------------------------------ load_all_tools
\* Number of tools the category listing holds at most.
MaxListed == 2

\* total_pages = 23
total_pages == 23

\* The cards on display while page page_num is loaded: every 'Load More' click
\* reveals one more tool of the listing.
CardsShown == 1..Min(page_num, t_listed)

\* retry_with_timeout(wait_for_selector('.tool-item')) or query_selector_all
\* raises: the handler of the loop body is entered with page_num as it was.
PagesWaitRaises ==
  /\ t_pc = "wait"
  /\ t_pc' = "except"
  /\ UNCHANGED <<page_num, t_urls, t_listed, t_result>>

\* except Exception: await asyncio.sleep(5); continue
PagesSleepContinue ==
  /\ t_pc = "except"
  /\ t_pc' = IF page_num <= total_pages THEN "wait" ELSE "return"
  /\ UNCHANGED <<page_num, t_urls, t_listed, t_result>>

\* The cards are read: the url of every card whose link can be read is added.
PagesCollect ==
  /\ t_pc = "wait"
  /\ \E read \in SUBSET CardsShown : t_urls' = t_urls \cup read
  /\ t_pc' = "more"
  /\ UNCHANGED <<page_num, t_listed, t_result>>

\* if page_num < total_pages: the button is found and clicked; page_num += 1
PagesLoadMore ==
  /\ t_pc = "more"
  /\ page_num < total_pages
  /\ page_num' = page_num + 1
  /\ t_pc' = "wait"
  /\ UNCHANGED <<t_urls, t_listed, t_result>>

\* The button is not found, or waiting for it or clicking it raises: break
PagesBreak ==
  /\ t_pc = "more"
  /\ page_num < total_pages
  /\ t_pc' = "return"
  /\ UNCHANGED <<page_num, t_urls, t_listed, t_result>>

\* On the last page no button is looked for; page_num += 1 ends the loop.
PagesLastPage ==
  /\ t_pc = "more"
  /\ page_num >= total_pages
  /\ page_num' = page_num + 1
  /\ t_pc' = "return"
  /\ UNCHANGED <<t_urls, t_listed, t_result>>

\* return list(tool_urls)
PagesReturn ==
  /\ t_pc = "return"
  /\ t_result' = Returned(SetToList(t_urls))
  /\ t_pc' = "done"
  /\ UNCHANGED <<page_num, t_urls, t_listed>>

InitPages ==
  /\ ScrapeIdle /\ RetryIdle /\ ClassIdle /\ ExtractIdle /\ FallbackIdle
  /\ PartsIdle /\ UrlIdle /\ CsvIdle /\ LlmIdle
  /\ t_pc = "wait"
  /\ page_num = 1
  /\ t_urls = {}
  /\ t_listed \in 0..MaxListed
  /\ t_result = NoResult

NextPages ==
  \/ (PagesWaitRaises /\ UNCHANGED notPagesVars)
  \/ (PagesSleepContinue /\ UNCHANGED notPagesVars)
  \/ (PagesCollect /\ UNCHANGED notPagesVars)
  \/ (PagesLoadMore /\ UNCHANGED notPagesVars)
  \/ (PagesBreak /\ UNCHANGED notPagesVars)
  \/ (PagesLastPage /\ UNCHANGED notPagesVars)
  \/ (PagesReturn /\ UNCHANGED notPagesVars)

\* The call keeps running as long as it has a step to take.
SpecPages == InitPages /\ [][NextPages]_vars /\ WF_vars(NextPages)

\* ---------------------------------------------------------- get_llm_category
VALID_CATEGORIES == CategoryNames \cup {"Other"}

\* What get_llm_category tests the keyword result against.
NO_KEYWORD_MATCH == "Other"

\* The return statement categorize_tool leaves through.
ReturnPath(ms, combined) ==
  IF ms # <<>> /\ BestMatch(ms).score >= Halves(MIN_SCORE) THEN "score"
  ELSE IF ms # <<>> /\ Occurring(document_terms, combined) > 0 THEN "document"
  ELSE "default"

\* ReturnPath for a call categorize_tool(n, d) on two strs.
CategorizePath(n, d) ==
  LET nm == clean_text(n.s)
      desc == clean_text(d.s)
      combined == nm \o " " \o desc
  IN ReturnPath(MatchesOf(nm, desc, combined), combined)

\* "Clean and validate the result": the category made of the reply of the LLM,
\* 'Other' when it is empty or not a valid category.
LlmCategory(reply) ==
  LET result == strip(reply)
      replaced == Replace(Replace(Replace(Replace(result,
                    "Marketing and Advertising", "Marketing & Advertising"),
                    "Content and Media", "Content & Media"),
                    "Analytics and Scheduling", "Analytics & Scheduling"),
                    "Image and Graphics", "Image & Graphics")
      prefixed == IF /\ ~StartsWith(replaced, "AI ")
                     /\ replaced # "Development Tools"
                     /\ replaced # "Other"
                    THEN "AI " \o replaced ELSE replaced
  IN IF reply = "" THEN "Other"
     ELSE IF result \in VALID_CATEGORIES THEN result
     ELSE IF prefixed \in VALID_CATEGORIES THEN prefixed
     ELSE "Other"

\* What llm_strategy.extract answers; "" also stands for a call that raises.
LlmReplies == {"", "SEO Tools", " Content Marketing\n", "Chatbots"}

\* print(f"Description: {description[:200]}...") before the try block raises
\* TypeError on a description that is not a str.
LlmSliceRaises ==
  /\ g_pc = "start"
  /\ g_description.type # "str"
  /\ g_result' = Raised("TypeError")
  /\ g_pc' = "done"
  /\ UNCHANGED <<g_name, g_description, keyword_category, g_path, g_llm_called>>

\* keyword_category = categorize_tool(name, description)
LlmKeyword ==
  /\ g_pc = "start"
  /\ g_description.type = "str"
  /\ g_name.type = "str"
  /\ keyword_category' = categorize_tool(g_name, g_description).value
  /\ g_path' = CategorizePath(g_name, g_description)
  /\ g_pc' = "check"
  /\ UNCHANGED <<g_name, g_description, g_llm_called, g_result>>

\* categorize_tool raises: except Exception, then return "Other".
LlmKeywordRaises ==
  /\ g_pc = "start"
  /\ g_description.type = "str"
  /\ categorize_tool(g_name, g_description).kind = "raised"
  /\ g_result' = Returned("Other")
  /\ g_pc' = "done"
  /\ UNCHANGED <<g_name, g_description, keyword_category, g_path, g_llm_called>>

\* if keyword_category != "Other": return keyword_category; else the LLM is
\* asked and its reply validated.
LlmDecide ==
  /\ g_pc = "check"
  /\ IF keyword_category # NO_KEYWORD_MATCH
       THEN /\ g_result' = Returned(keyword_category)
            /\ UNCHANGED g_llm_called
     ELSE /\ g_llm_called' = TRUE
          /\ \E reply \in LlmReplies : g_result' = Returned(LlmCategory(reply))
  /\ g_pc' = "done"
  /\ UNCHANGED <<g_name, g_description, keyword_category, g_path>>

InitLlm ==
  /\ ScrapeIdle /\ RetryIdle /\ ClassIdle /\ ExtractIdle /\ FallbackIdle
  /\ PartsIdle /\ UrlIdle /\ CsvIdle /\ PagesIdle
  /\ g_pc = "start"
  /\ g_name \in NameArgs
  /\ g_description \in DescriptionArgs
  /\ keyword_category = ""
  /\ g_path = ""
  /\ g_llm_called = FALSE
  /\ g_result = NoResult

NextLlm ==
  \/ (LlmSliceRaises /\ UNCHANGED notLlmVars)
  \/ (LlmKeyword /\ UNCHANGED notLlmVars)
  \/ (LlmKeywordRaises /\ UNCHANGED notLlmVars)
  \/ (LlmDecide /\ UNCHANGED notLlmVars)

SpecLlm == InitLlm /\ [][NextLlm]_vars

\* =================================================================== claims
\* URLs handed to extract_tool_details by the loop of this run.
Attempted == {remaining_urls[k] : k \in 1..i}
\* URLs of the records appended to tools by this run.
AppendedThisRun == {tools[k].url : k \in (loaded_n + 1)..Len(tools)}
NoDuplicates(ts) ==
  \A j, k \in 1..Len(ts) : ts[j].url = ts[k].url => j = k
\* The per-URL loop is running (a save_checkpoint called from it included).
InLoop ==
  \/ pc \in {"loop", "extract", "writeout", "dumpout", "sleep"}
  \/ pc \in {"saveopen", "savedump"} /\ save_ret = "sleep"
OkUrls == {u \in DOMAIN site : site[u] = "ok"}
Deterministic == \A u \in DOMAIN site : site[u] # "flaky"
CheckpointHolds(ts, ps) ==
  /\ checkpoint_file.kind = "complete"
  /\ checkpoint_file.tools = ts
  /\ ListToSet(checkpoint_file.processed_urls) = ps
OutputHolds(ts) ==
  /\ output_file.kind = "complete"
  /\ output_file.tools = ts

\* C1: a run started from a checkpoint with processed_urls P hands no URL of P to
\* extract_tool_details and appends no record for a URL of P; when the run has
\* returned, tools holds at most one record per source URL.
C1_SkipsProcessedUrls ==
  /\ Attempted \cap loaded_urls = {}
  /\ AppendedThisRun \cap loaded_urls = {}
  /\ pc = "returned" => NoDuplicates(tools)

\* A resumed run has skipped a non-empty P, appended new records and returned.
C1_Witness ==
  /\ pc = "returned"
  /\ loaded_urls # {}
  /\ AppendedThisRun # {}

\* C2 (as stated): processed_urls is the loaded set plus the URLs appended in this
\* run, every processed URL has its record in tools, and an iteration that ended
\* in the per-URL except handler appended nothing.
C2_AnyExceptionLeavesStateUnchanged ==
  /\ processed_urls = loaded_urls \cup AppendedThisRun
  /\ processed_urls \subseteq UrlsOf(tools)
  /\ iter_raised => ~iter_appended

\* C2 (amended): processed_urls is the loaded set plus the URLs appended in this
\* run; every processed URL has its record in tools; after an iteration whose
\* extraction failed (empty details or exhausted retries) the URL is neither in
\* processed_urls nor in tools; an exception raised after the append (a file
\* write) leaves the record in tools and the URL in processed_urls.
C2_ExtractionFailureLeavesStateUnchanged ==
  /\ processed_urls = loaded_urls \cup AppendedThisRun
  /\ processed_urls \subseteq UrlsOf(tools)
  /\ (pc \in {"sleep", "loop"} /\ i > 0 /\ ~iter_appended) =>
       (tool_url \notin processed_urls /\ tool_url \notin UrlsOf(tools))
  /\ (iter_raised /\ iter_appended) =>
       (tool_url \in processed_urls /\ tools[Len(tools)] = Record(tool_url))

\* Both failure kinds have happened: an extraction that raised after its last
\* attempt left the state alone, and a write that raised after an append.
C2_Witness ==
  /\ pc = "loop"
  /\ iter_raised
  /\ iter_appended
  /\ \E u \in Attempted : u \notin processed_urls

\* C3: a run started after a kill, on a site whose extraction is deterministic,
\* that has ended (its loop ran to completion, or load_checkpoint raised) holds
\* one record for each URL whose extraction succeeds, as an uninterrupted run
\* does, and has not handed a loaded URL to extract_tool_details.
C3_ResumeYieldsSameRecords ==
  (/\ prev_crashed
   /\ Deterministic
   /\ \/ pc = "returned" /\ loop_done
      \/ pc = "fatal") =>
    /\ UrlsOf(tools) = OkUrls
    /\ NoDuplicates(tools)
    /\ Attempted \cap loaded_urls = {}

C5_CheckpointEveryTen == InLoop => since_ckpt <= CHECKPOINT_EVERY

\* C6: when an exception has entered the outer except block and scrape_tools has
\* returned, the checkpoint file holds the in-memory tools and processed_urls.
C6_AbortSavesCheckpoint ==
  (pc \in {"finally", "returned"} /\ ended = "aborted") =>
    CheckpointHolds(tools, processed_urls)

\* A run that scraped something was aborted and has returned.
C6_Witness ==
  /\ pc = "returned"
  /\ ended = "aborted"
  /\ tools # <<>>

\* C7: when the loop ran to completion and scrape_tools has returned, the
\* checkpoint file does not exist and the output file holds the final tools.
C7_CompletionRemovesCheckpoint ==
  (pc = "returned" /\ loop_done) =>
    (checkpoint_file.kind = "absent" /\ OutputHolds(tools))

\* C8: the checkpoint file is never a partially written file.
C8_CheckpointNeverPartial == checkpoint_file.kind \in {"absent", "complete"}

\* C9: with no checkpoint file load_checkpoint returns the empty state; with an
\* unparseable one the run goes no further than load_checkpoint, whose error
\* leaves scrape_tools before any URL is processed.
C9_LoadCheckpoint ==
  /\ (pc = "launch" /\ checkpoint_file.kind = "absent") =>
       (tools = <<>> /\ processed_urls = {})
  /\ pc \in {"launch", "goto", "discover"} => checkpoint_file.kind # "truncated"
  /\ pc = "fatal" =>
       /\ checkpoint_file.kind = "truncated"
       /\ ended = "load_error"
       /\ Attempted = {}
       /\ tools = <<>>

\* A restarted run found a cut-short checkpoint and ended in load_checkpoint.
C9_Witness == pc = "fatal" /\ runs > 1

FailedCalls == {k \in 1..Len(r_calls) : r_calls[k] \in FuncErrors}

\* C10: retry_with_timeout calls func at most max_retries times; a returned value
\* is that of the first call that did not fail, which is the last call made; the
\* k-th failed call is followed by a sleep of 2^k seconds, except the
\* max_retries-th, whose error is raised without a sleep.
C10_RetryPolicy ==
  /\ Len(r_calls) <= max_retries
  /\ \A k \in 1..Len(r_sleeps) : r_sleeps[k] = 2 ^ k
  /\ \A k \in 2..Len(r_sleeps) : r_sleeps[k] = 2 * r_sleeps[k - 1]
  /\ r_result.kind = "none" =>
       /\ FailedCalls = 1..Len(r_calls)
       /\ Len(r_sleeps) = Len(r_calls)
  /\ (r_result.kind = "returned" /\ r_result.value \in FuncValues) =>
       /\ r_calls[Len(r_calls)] = r_result.value
       /\ FailedCalls = 1..(Len(r_calls) - 1)
       /\ Len(r_sleeps) = Len(r_calls) - 1
  /\ r_result.kind = "raised" =>
       /\ Len(r_calls) = max_retries
       /\ FailedCalls = 1..max_retries
       /\ r_result.value = r_calls[max_retries]
       /\ Len(r_sleeps) = max_retries - 1
  /\ (r_pc = "done" /\ max_retries > 0) => r_result.value # "None"

\* Three attempts failed, the last with a timeout: sleeps of 2 and 4, then raise.
C10_Witness ==
  /\ max_retries = 3
  /\ r_result = [kind |-> "raised", value |-> "TimeoutError"]
  /\ r_sleeps = <<2, 4>>

LoopPcs == {"loop", "extract", "writeout", "dumpout", "sleep", "saveopen", "savedump"}

\* C11: extraction is entered for the URLs of remaining_urls one after the other
\* in list order, once each; the loop is left only at its end, with every URL
\* attempted, whatever the earlier URLs did (record, empty result, exhausted
\* retries, exception from a write); and a started loop reaches completion.
C11_EveryUrlAttempted ==
  /\ [][(pc # "extract" /\ pc' = "extract") =>
          (pc = "loop" /\ i' = i + 1 /\ i' <= Len(remaining_urls)
             /\ remaining_urls' = remaining_urls)]_vars
  /\ [][(InLoop /\ ~InLoop') =>
          (pc' = "csv" /\ loop_done' /\ i = Len(remaining_urls))]_vars
  /\ \A k \in 1..MaxUrls :
       (pc = "loop" /\ i = 0 /\ k <= Len(remaining_urls))
         ~> (pc = "extract" /\ i = k)
  /\ (pc = "loop") ~> (pc = "csv" /\ loop_done)

\* The loop completed over every listed URL although one extraction exhausted
\* its retries and the write after another one raised.
C11_Witness ==
  /\ pc = "csv"
  /\ loop_done
  /\ Len(remaining_urls) = MaxUrls
  /\ \E u \in DOMAIN site : site[u] = "bad"
  /\ iter_raised /\ iter_appended

\* C12: a run that ended on a failure (any end but completion or a kill) ended
\* after the outer except block called save_checkpoint.
C12_FatalFailureSavesCheckpoint ==
  (pc \in {"returned", "raised", "fatal"} /\ ended # "completed") =>
    ended \in {"aborted", "save_error"}

\* The tier sum of category number k alone: what the (keyword, weight) pairs of
\* the category contribute, one tier per pair.
TierSum(k) ==
  KeywordsScore(CATEGORIES[k].keywords, name.s, description.s, combined_text)
\* The total_score the loop recorded for category number k (0 when it recorded
\* none).
RecordedScore(k) ==
  LET hits == {j \in 1..Len(matches) : matches[j].category = CATEGORIES[k].category}
  IN IF hits = {} THEN 0 ELSE matches[CHOOSE j \in hits : TRUE].score

C17_ScoreIsSumOfTiers ==
  c_pc \in {"score", "done"} =>
    \A k \in 1..Len(CATEGORIES) : k < c_cat => RecordedScore(k) = TierSum(k)

\* C18: categorize_tool never raises; on a name or description that is not a str
\* it returns the default category.
C18_CategorizeNeverRaises ==
  c_pc = "done" =>
    /\ c_result.kind = "returned"
    /\ (arg_name.type # "str" \/ arg_description.type # "str") =>
         c_result.value = DEFAULT_CATEGORY

\* extract_tool_details went past its last await on the page: it returns what
\* its categorize step leaves.
ReachedCategorize ==
  e_pc \in {"returned", "done"} /\ "social_links" \in tool_data.keys

\* C13: every record appended to the results has a 'category' that is a name of
\* the taxonomy; a page with a non-empty description yields a record with the
\* category categorize_tool computes for it, a page without one a record with
\* the default category.
C13_RecordHasCategory ==
  /\ e_pc # "idle" =>
       \A k \in 1..Len(e_tools) :
         /\ "category" \in e_tools[k].keys
         /\ e_tools[k].category \in CategoryNames
  /\ ReachedCategorize =>
       /\ "category" \in details.keys
       /\ IF Truthy(tool_data, "full_description")
            THEN Returned(details.category) =
                   categorize_tool(PyStr(tool_data.name),
                                   PyStr(tool_data.full_description))
          ELSE details.category = DEFAULT_CATEGORY

\* C14: every record appended to the results has a non-empty 'name'.
C14_RecordHasName ==
  e_pc # "idle" =>
    \A k \in 1..Len(e_tools) :
      "name" \in e_tools[k].keys /\ e_tools[k].name # ""

\* An absent or empty value, or one that begins with http:// or https://.
HttpOrEmpty(d, k) ==
  Truthy(d, k) => (StartsWith(d[k], "http://") \/ StartsWith(d[k], "https://"))

\* C15: in every record appended to the results, logo_url, img_url, pricing_link
\* and every entry of social_links is absent, empty or an http(s) URL.
C15_UrlFieldsAreAbsolute ==
  e_pc # "idle" =>
    \A k \in 1..Len(e_tools) :
      /\ HttpOrEmpty(e_tools[k], "logo_url")
      /\ HttpOrEmpty(e_tools[k], "img_url")
      /\ HttpOrEmpty(e_tools[k], "pricing_link")
      /\ \A j \in 1..Len(e_tools[k].social_links) :
            \/ StartsWith(e_tools[k].social_links[j], "http://")
            \/ StartsWith(e_tools[k].social_links[j], "https://")

CssText == strip(html_element.css.text)
XpathConfigured == xpath_selector.type = "str" /\ xpath_selector.s # ""
XpathText ==
  IF html_element.xpath.outcome = "list"
    THEN strip(Join(html_element.xpath.items, " "))
  ELSE ""

\* C19: extract_with_fallback returns the text of the CSS match when it is not
\* empty; when CSS matches nothing or an element with empty text and an XPath
\* selector is configured, the non-empty XPath result; otherwise 'N/A'; it never
\* raises and never returns None.
C19_CssThenXpathThenSentinel ==
  f_pc = "done" =>
    /\ f_result.kind = "returned"
    /\ f_result.value.type = "str"
    /\ f_result.value.s =
         IF html_element.css.outcome = "found" /\ CssText # "" THEN CssText
         ELSE IF /\ html_element.css.outcome \in {"found", "none"}
                 /\ XpathConfigured
                 /\ XpathText # ""
           THEN XpathText
         ELSE NOT_AVAILABLE

\* The description under test is a text or absent.
TextOrAbsent == p_description.type \in {"str", "NoneType"}

\* The anchor phrase (lower case) is missing from the description under test.
AnchorMissing(anchor) ==
  Find(p_description.s, anchor) > Len(p_description.s)

\* C20: extract_description_parts never raises for a description that is a text
\* or absent; once it returned, a slice whose anchor phrase is missing is the
\* empty string or the empty list (no 'Use Cases' gives use_cases == []), and
\* an empty or absent description gives the all-empty parts.
C20_MissingAnchorGivesEmptySlice ==
  TextOrAbsent =>
    /\ p_result.kind # "raised"
    /\ p_pc = "done" =>
         /\ p_result = Returned("parts")
         /\ AnchorMissing("what is ") => parts.short_description = ""
         /\ AnchorMissing("how to use ") => parts.how_to_use = ""
         /\ AnchorMissing("core features") => parts.features = <<>>
         /\ AnchorMissing("use cases") => parts.use_cases = <<>>
         /\ p_description.s = "" => parts = EmptyParts

\* A description with 'Core Features' but without 'Use Cases' was parsed.
C20_Witness ==
  /\ p_pc = "done"
  /\ p_description.type = "str"
  /\ ~AnchorMissing("core features")
  /\ AnchorMissing("use cases")
  /\ p_result = Returned("parts")
  /\ parts.features # <<>>
  /\ parts.use_cases = <<>>

\* The url the first clean_url call was given, without surrounding white space.
StrippedArg == strip(u_arg.s)

\* C21: clean_url(clean_url(u)) == clean_url(u) for every str u, and what
\* clean_url returns is '' or begins with 'http://' or 'https://'.
C21_CleanUrlIdempotent ==
  (u_pc = "done" /\ u_arg.type = "str") =>
    /\ \A k \in 1..Len(u_results) :
         u_results[k] = "" \/ HasHttpScheme(u_results[k])
    /\ u_call = 2 => u_results[2] = u_results[1]

\* A relative url was made absolute and cleaned a second time.
C21_Witness ==
  /\ u_pc = "done"
  /\ u_call = 2
  /\ u_arg.type = "str"
  /\ u_results[1] # ""
  /\ u_results[1] # u_arg.s
  /\ u_results[2] = u_results[1]

\* C22: '/p' becomes 'https://www.toolify.ai/p', '//host/p' becomes
\* 'https://host/p', and a url naming 'logo.f3a91ce.png' becomes ''.
C22_EachFormNormalised ==
  (u_pc = "done" /\ u_call = 1 /\ u_arg.type = "str") =>
    /\ In(DEFAULT_LOGO, StrippedArg) => u_results[1] = ""
    /\ (~In(DEFAULT_LOGO, StrippedArg) /\ StartsWith(StrippedArg, "//")) =>
         u_results[1] = "https:" \o StrippedArg
    /\ (/\ ~In(DEFAULT_LOGO, StrippedArg)
        /\ StartsWith(StrippedArg, "/")
        /\ ~StartsWith(StrippedArg, "//")) =>
         u_results[1] = TOOLIFY \o StrippedArg

\* The images a logo search goes through, and the url it makes of a src.
PhaseImages(phase) ==
  IF phase = "website" THEN page.website_images ELSE page.content_images

PhaseUrl(phase, src) ==
  IF phase = "website" THEN AbsoluteOnWebsite(src, page.website)
  ELSE AbsoluteOnToolify(src)

\* The four independent terms of the scoring rule.
FourTermScore(src, alt, w, h, nm) ==
  (IF \E k \in 1..Len(logo_terms) :
        In(logo_terms[k], lower(src)) \/ In(logo_terms[k], lower(alt))
     THEN 5 ELSE 0)
    + (IF In(lower(nm), lower(alt)) \/ In(lower(nm), lower(src)) THEN 8 ELSE 0)
    + (IF 8 * h <= 10 * w /\ 10 * w <= 12 * h THEN 3 ELSE 0)
    + (IF 32 <= Min(w, h) /\ Min(w, h) <= 200 THEN 2 ELSE 0)

\* C23: in both logo searches the score of a candidate is the sum of +5 (a logo
\* term in url or alt), +8 (the tool name in alt or url), +3 (near-square) and
\* +2 (shorter side within [32, 200]), each awarded on its own.
C23_ScoreIsSumOfFourTerms ==
  \A phase \in {"website", "toolify"} :
    \A k \in 1..Len(logo_candidates[phase]) :
      LET c == logo_candidates[phase][k]
      IN \E j \in 1..Len(PhaseImages(phase)) :
           LET img == PhaseImages(phase)[j]
           IN /\ PhaseUrl(phase, img.src) = c.url
              /\ c.w = img.w /\ c.h = img.h
              /\ c.score = FourTermScore(c.url, img.alt, img.w, img.h,
                                         tool_data.name)

\* C24: no data-URI image, no image whose longest side is below 32 pixels and
\* no image scoring 5 or less is among the candidates of either logo search or
\* selected as logo_url.
C24_CandidatesAreFiltered ==
  /\ \A phase \in {"website", "toolify"} :
       \A k \in 1..Len(logo_candidates[phase]) :
         LET c == logo_candidates[phase][k]
         IN /\ ~StartsWith(c.url, "data:")
            /\ Max(c.w, c.h) >= 32
            /\ c.score > 5
  /\ Truthy(tool_data, "logo_url") =>
       \E phase \in {"website", "toolify"} :
         \E k \in 1..Len(logo_candidates[phase]) :
           logo_candidates[phase][k].url = tool_data.logo_url

\* The candidates the logo was selected from: those of the website search if it
\* found any, else those of the toolify search.
EligibleCandidates ==
  IF logo_candidates.website # <<>> THEN logo_candidates.website
  ELSE logo_candidates.toolify

\* C25: the selected logo is an eligible candidate that no eligible candidate
\* beats on score, nor on closeness to square at equal score; without an
\* eligible candidate no logo_url is set.
C25_BestCandidateSelected ==
  e_pc # "idle" =>
    IF EligibleCandidates = <<>> THEN "logo_url" \notin tool_data.keys
    ELSE \E k \in 1..Len(EligibleCandidates) :
           LET best == EligibleCandidates[k]
           IN /\ tool_data.logo_url = best.url
              /\ \A j \in 1..Len(EligibleCandidates) :
                   LET c == EligibleCandidates[j]
                   IN /\ c.score <= best.score
                      /\ c.score = best.score =>
                           AbsDiff(c.w, c.h) >= AbsDiff(best.w, best.h)

\* Two candidates tie on score and the one listed second, closer to square, was
\* selected.
C25_Witness ==
  /\ Len(EligibleCandidates) = 2
  /\ EligibleCandidates[1].score = EligibleCandidates[2].score
  /\ AbsDiff(EligibleCandidates[2].w, EligibleCandidates[2].h)
       < AbsDiff(EligibleCandidates[1].w, EligibleCandidates[1].h)
  /\ tool_data.logo_url = EligibleCandidates[2].url

\* C26: the website search comes first when the page links to a website; the
\* toolify search runs exactly when the website search has set no logo_url, and
\* a logo found on the website is never replaced.
C26_WebsiteFirstThenToolify ==
  /\ [](/\ logo_phases \in {<<>>, <<"website">>, <<"toolify">>,
                            <<"website", "toolify">>}
        /\ (e_pc \in {"fallback", "categorize"} /\ page.website # "") =>
             (logo_phases # <<>> /\ logo_phases[1] = "website"))
  /\ [][e_pc = "fallback" =>
          IF Truthy(tool_data, "logo_url")
            THEN /\ logo_phases' = logo_phases
                 /\ logo_candidates' = logo_candidates
                 /\ tool_data'.logo_url = tool_data.logo_url
          ELSE logo_phases' = Append(logo_phases, "toolify")]_vars

\* A logo was found on the website, the content area held an eligible image
\* too, and the toolify search was not run.
C26_Witness ==
  /\ e_pc = "categorize"
  /\ logo_phases = <<"website">>
  /\ logo_candidates.website # <<>>
  /\ Truthy(tool_data, "logo_url")
  /\ \E j \in 1..Len(page.content_images) :
       LET img == page.content_images[j]
       IN /\ img.src = "https://cdn-images.toolify.ai/a.png"
          /\ tool_data.logo_url # img.src

RECURSIVE SplitOn(_, _)
\* cell.split(sep)
SplitOn(s, sep) ==
  LET d == First(s, 1, LAMBDA k : At(s, k, sep))
  IN IF d > Len(s) THEN <<s>>
     ELSE <<SubSeq(s, 1, d - 1)>> \o SplitOn(From(s, d + Len(sep)), sep)

\* The list a cell is split back into (an empty cell is the empty list).
CellList(cell) == IF cell = "" THEN <<>> ELSE SplitOn(cell, "|")

\* The key and value pairs a cell of 'key: value' entries is split back into.
CellPairs(cell) ==
  [k \in 1..Len(CellList(cell)) |-> SplitOn(CellList(cell)[k], ": ")]

\* C27: splitting the features and use_cases cells on '|' and the social_links
\* and important_links cells on '|' and ': ' gives back the lists and maps of
\* the record the row was made from.
C27_CellsSplitBackToRecord ==
  v_pc = "done" =>
    /\ CellList(flat_item.features) = item.features
    /\ CellList(flat_item.use_cases) = item.use_cases
    /\ IF item.social_links.kind = "dict"
         THEN CellPairs(flat_item.social_links) = item.social_links.items
       ELSE CellList(flat_item.social_links) = item.social_links.items
    /\ CellPairs(flat_item.important_links) = item.links

\* The fields of logo_fields that hold an http url, in the order of logo_fields.
HttpImageFields ==
  SelectSeq(logo_fields,
            LAMBDA f : f \in item.keys /\ StartsWith(item[f], "http"))

\* C30: for a record with an http logo image and an http main image, the row's
\* logo_url is the first such field in the order logo_url, image_url, logo,
\* img_url and the row's img_url is the second.
C30_MainImageKept ==
  (v_pc = "done" /\ Len(HttpImageFields) >= 2) =>
    /\ flat_item.logo_url = item[HttpImageFields[1]]
    /\ flat_item.img_url = item[HttpImageFields[2]]

\* C28: load_all_tools always terminates, whatever the page does: it returns
\* the urls collected so far, after at most total_pages passes of the loop.
C28_LoadAllToolsTerminates ==
  /\ (t_pc = "wait") ~> (t_pc = "done")
  /\ [](t_pc = "done" => t_result = Returned(SetToList(t_urls)))

\* C29: get_llm_category asks the LLM exactly when categorize_tool fell through
\* to its default return: then the LLM step is reached, and when categorize_tool
\* selected a category by score that category is returned and the LLM is not
\* asked.
C29_LlmOnlyForDefaultCategory ==
  g_pc = "done" =>
    /\ g_path = "default" => g_llm_called
    /\ g_path = "score" =>
         (~g_llm_called /\ g_result = Returned(keyword_category))

====
